---- MODULE Spec2Model ----
(***************************************************************************)
(* Model of the hook runner of claude-hooks (runHook / handleHookPayload)   *)
(* and of the transcript store of the same library.                        *)
(* One behaviour is one process: the category comes from process.argv[2],  *)
(* stdin arrives as 'data' events followed by 'end', the registered        *)
(* handler is awaited, and the response goes to stdout.  Spec follows the  *)
(* runner, CacheSpec the calls of getAllMessages with its cache, clock and *)
(* sweep timer, SweepSpec the same cache when the timer fires on time,     *)
(* QuerySpec one streaming query over a transcript file, line by line,     *)
(* SessionSpec the hook processes that share a session file through        *)
(* saveSessionData, and TemplateSpec the generated preToolUse handler      *)
(* under the runner.                                                       *)
(*                                                                         *)
(* Text is modelled as a sequence of lexical tokens: "{" and "}", one      *)
(* whitespace token, and one token per object member (the member together  *)
(* with the comma that separates it from its neighbour).                   *)
(***************************************************************************)
EXTENDS Integers, Sequences, FiniteSets, TLC

\* Total number of tokens stdin delivers in one process.
MaxInput == 4

----------------------------------------------------------------------------
\* Text and JSON

WS == " "

\* Shell commands, as the pieces the template's handler looks for and
\* other text (x): rm -rf / and rm -rf ~ alone and inside a longer command,
\* rm -rf of something else, the pieces in another order, the empty command.
RmRf == "rm -rf "
CommandRoot == <<RmRf, "/">>
CommandHome == <<RmRf, "~">>
CommandInside == <<"x", RmRf, "/", "x">>
CommandLocal == <<RmRf, "x">>
CommandReversed == <<"/", RmRf>>
CommandEmpty == <<>>

\* `Dangerous command detected: ${command}`
Reason(command) == <<"Dangerous command detected: ">> \o command

\* An object without properties, and the tool_input of a Bash call.
EmptyInput == [k \in {} |-> <<>>]
BashInput(command) == [k \in {"command"} |-> command]

\* Member tokens and the "key": value pair each one stands for.
Members ==
  {"e", "t", "d", "a", "sid1", "sid2", "nB", "nE", "i0", "c1", "c2", "c3",
   "c4", "c5", "c6", "r1", "r2", "r3"}

MemberKey ==
  [e |-> "hook_event_name", t |-> "hook_type", d |-> "decision",
   a |-> "action", sid1 |-> "session_id", sid2 |-> "session_id",
   nB |-> "tool_name", nE |-> "tool_name", i0 |-> "tool_input",
   c1 |-> "tool_input", c2 |-> "tool_input", c3 |-> "tool_input",
   c4 |-> "tool_input", c5 |-> "tool_input", c6 |-> "tool_input",
   r1 |-> "reason", r2 |-> "reason", r3 |-> "reason"]

MemberVal ==
  [e |-> "Stop", t |-> "PreToolUse", d |-> "block", a |-> "continue",
   sid1 |-> "s1", sid2 |-> "s2", nB |-> "Bash", nE |-> "Edit",
   i0 |-> EmptyInput, c1 |-> BashInput(CommandRoot),
   c2 |-> BashInput(CommandHome), c3 |-> BashInput(CommandInside),
   c4 |-> BashInput(CommandLocal), c5 |-> BashInput(CommandReversed),
   c6 |-> BashInput(CommandEmpty), r1 |-> Reason(CommandRoot),
   r2 |-> Reason(CommandHome), r3 |-> Reason(CommandInside)]

\* Object keys in the order JSON.stringify emits them here.
KeyOrder ==
  <<"hook_event_name", "hook_type", "decision", "reason", "action">>

\* Tokens that stdin can deliver.
InputTok == {"{", "}", WS, "e", "t"}

\* JavaScript values: undefined, a string (token sequence), an object (by
\* its fields).
Undefined == [type |-> "undefined"]
Str(s) == [type |-> "string", text |-> s]
Obj(f) == [type |-> "object", fields |-> f]

NoFields == [k \in {} |-> ""]

NonWS(tok) == tok # WS

\* String.prototype.trim(): drops leading and trailing whitespace.
RECURSIVE TrimLeft(_)
TrimLeft(s) ==
  IF s # <<>> /\ Head(s) = WS THEN TrimLeft(Tail(s)) ELSE s

RECURSIVE TrimRight(_)
TrimRight(s) ==
  IF s # <<>> /\ s[Len(s)] = WS THEN TrimRight(SubSeq(s, 1, Len(s) - 1)) ELSE s

Trim(s) == TrimRight(TrimLeft(s))

\* The fields of the object whose member tokens are ms (a later member with
\* the same key wins).
FieldsOf(ms) ==
  [k \in {MemberKey[ms[i]] : i \in DOMAIN ms} |->
     LET last == CHOOSE i \in DOMAIN ms :
                   /\ MemberKey[ms[i]] = k
                   /\ \A j \in DOMAIN ms : MemberKey[ms[j]] = k => j <= i
     IN MemberVal[ms[last]]]

\* JSON.parse(text).  The value is an object "{" member* "}", where
\* whitespace may surround every token.  ok = FALSE stands for the
\* SyntaxError.
JSONParse(text) ==
  LET toks == SelectSeq(text, NonWS)
      n == Len(toks)
  IN IF /\ n >= 2
        /\ toks[1] = "{"
        /\ toks[n] = "}"
        /\ \A i \in 2..(n - 1) : toks[i] \in Members
     THEN [ok |-> TRUE, value |-> Obj(FieldsOf(SubSeq(toks, 2, n - 1)))]
     ELSE [ok |-> FALSE, value |-> Undefined]

\* The member token that writes key k with value v.
MemberFor(k, v) == CHOOSE m \in Members : MemberKey[m] = k /\ MemberVal[m] = v

RECURSIVE MembersText(_, _)
MembersText(f, i) ==
  IF i > Len(KeyOrder) THEN <<>>
  ELSE (IF KeyOrder[i] \in DOMAIN f
        THEN <<MemberFor(KeyOrder[i], f[KeyOrder[i]])>>
        ELSE <<>>) \o MembersText(f, i + 1)

\* JSON.stringify(v): undefined for undefined, the object text otherwise.
JSONStringify(v) ==
  IF v.type = "undefined" THEN Undefined
  ELSE Str(<<"{">> \o MembersText(v.fields, 1) \o <<"}">>)

\* The line console.log(v) prints: a string as is, undefined as the word.
ConsoleLine(v) ==
  IF v.type = "undefined" THEN <<"undefined">> ELSE v.text

----------------------------------------------------------------------------
\* Categories and the handler registry

Categories ==
  {"PreToolUse", "PostToolUse", "Notification", "Stop", "SubagentStop",
   "UserPromptSubmit", "PreCompact", "SessionStart"}

\* process.argv[2] when no argument was given.
NoArg == "undefined"

\* Values process.argv[2] can take: a category, another word, nothing.
HookTypes == Categories \cup {"UnknownHookType", NoArg}

NoHandler == "none"

\* The HookHandlers registries the runner is started with.
Registries ==
  { {},
    {"preToolUse", "postToolUse"},
    {"preToolUse", "postToolUse", "notification", "stop", "subagentStop",
     "userPromptSubmit", "preCompact"},
    {"preToolUse", "postToolUse", "notification", "stop", "subagentStop",
     "userPromptSubmit", "preCompact", "sessionStart"} }

\* Objects a handler may return.
ReturnObjects ==
  { NoFields,
    [k \in {"decision"} |-> "block"],
    [k \in {"action"} |-> "continue"] }

\* What a handler resolves with: an object, or nothing (a void handler).
ReturnValues == {Obj(f) : f \in ReturnObjects} \cup {Undefined}

----------------------------------------------------------------------------
\* The process

VARIABLES
  hook_type,   \* process.argv[2]
  handlers,    \* keys of the HookHandlers object passed to runHook
  buffer,      \* runHook's buffer
  ended,       \* stdin has emitted 'end'
  input,       \* every token stdin has delivered so far, in order
  invocations, \* one record per handleHookPayload call, in call order
  stdout,      \* lines written with console.log
  stderr,      \* diagnostics written with console.error
  exit         \* codes passed to process.exit (empty while running)

\* The transcript store, module state of the same process
VARIABLES
  now,             \* Date.now(), in milliseconds since the module was loaded
  files,           \* the lines of the transcript file at each path
  transcriptCache, \* the module's Map: path -> {data, timestamp}
  timers,          \* interval timers that are active (registered, not cleared)
  sweepAt,         \* the time at which the sweep interval fires next
  calls,           \* getAllMessages calls, in call order
  events,          \* number of store events so far
  scan             \* the streaming query in progress

\* The session log, which hook processes share through the file system.
VARIABLES
  sessionFiles, \* the text of the session file of each session id
  savers        \* one record per hook process that calls saveSessionData

vars ==
  <<hook_type, handlers, buffer, ended, input, invocations, stdout, stderr,
    exit>>

storeVars ==
  <<now, files, transcriptCache, timers, sweepAt, calls, events, scan>>

sessionVars == <<sessionFiles, savers>>

allVars == <<vars, storeVars, sessionVars>>

\* Non-empty token sequences of length at most n.
Chunks(n) == UNION {[1..k -> InputTok] : k \in 1..n}

\* The own enumerable properties an object spread copies.
SpreadFields(v) == v.fields

\* Variant: {hook_type: hook_type, ...inputData}, a field of the input wins.
TagPayload_PayloadWins(inputData, ht) ==
  LET own == SpreadFields(inputData)
  IN [k \in DOMAIN own \cup {"hook_type"} |->
        IF k \in DOMAIN own THEN own[k] ELSE ht]

\* The payload handed to the handler: {...inputData, hook_type: hook_type}.
TagPayload(inputData, ht) ==
  LET own == SpreadFields(inputData)
  IN [k \in DOMAIN own \cup {"hook_type"} |->
        IF k = "hook_type" THEN ht ELSE own[k]]

\* The switch of handleHookPayload: the registry key of a category's case,
\* NoHandler when no case matches.
HandlerKey(tag) ==
  CASE tag = "PreToolUse" -> "preToolUse"
    [] tag = "PostToolUse" -> "postToolUse"
    [] tag = "Notification" -> "notification"
    [] tag = "Stop" -> "stop"
    [] tag = "SubagentStop" -> "subagentStop"
    [] tag = "UserPromptSubmit" -> "userPromptSubmit"
    [] tag = "PreCompact" -> "preCompact"
    [] tag = "SessionStart" -> "sessionStart"
    [] OTHER -> NoHandler

\* Variant: the switch runs on the payload's hook_event_name when it has one.
SelectHandler_ByEventName(payload, registry) ==
  LET tag == IF "hook_event_name" \in DOMAIN payload
             THEN payload["hook_event_name"]
             ELSE payload["hook_type"]
  IN IF HandlerKey(tag) \in registry THEN HandlerKey(tag) ELSE NoHandler

\* The handler the switch calls for a payload, NoHandler if there is none.
SelectHandler(payload, registry) ==
  IF HandlerKey(payload["hook_type"]) \in registry
  THEN HandlerKey(payload["hook_type"])
  ELSE NoHandler

\* The cases that print the response and call process.exit(0) themselves.
IsTerminal(tag) == tag \in {"Stop", "SubagentStop"}

\* let response: any = {}
DefaultResponse == Obj(NoFields)

\* Variant: the catch answers with the empty object.
SafeDefault_Empty == Obj(NoFields)

\* The response of runHook's catch: {action: 'continue'}.
SafeDefault == Obj([k \in {"action"} |-> "continue"])

HookErrorLog == "Hook error:"
IncompleteLog == "Incomplete JSON in buffer:"

\* Variant: the initial value of response is printed, not the handler's.
ResponseLine_Default(response) == ConsoleLine(JSONStringify(DefaultResponse))

\* console.log(JSON.stringify(response))
ResponseLine(response) == ConsoleLine(JSONStringify(response))

\* Exit codes after the response of a category has been printed by
\* handleHookPayload.
ExitAfterResponse(tag, codes) ==
  IF IsTerminal(tag) THEN Append(codes, 0) ELSE codes

\* Variant: each chunk is parsed on its own (JSON.parse(data.toString())).
Accumulate_ChunkOnly(buf, chunk) == chunk

\* buffer += chunk
Accumulate(buf, chunk) == buf \o chunk

\* Variant: the test is if (buffer), without the trim.
EndDiagnostics_NoTrim(buf, err) ==
  IF buf # <<>> THEN Append(err, IncompleteLog) ELSE err

\* The 'end' listener: if (buffer.trim()) console.error('Incomplete JSON ...')
EndDiagnostics(buf, err) ==
  IF Trim(buf) # <<>> THEN Append(err, IncompleteLog) ELSE err

Running == exit = <<>>

Init ==
  /\ hook_type \in HookTypes
  /\ handlers \in Registries
  /\ buffer = <<>>
  /\ ended = FALSE
  /\ input = <<>>
  /\ invocations = <<>>
  /\ stdout = <<>>
  /\ stderr = <<>>
  /\ exit = <<>>

\* Variant: the handler is started but not awaited, the default response is
\* printed at once.
HandleHookPayload_NoAwait(inputData) ==
  LET payload == TagPayload(inputData, hook_type)
      h == SelectHandler(payload, handlers)
  IN /\ stdout' = Append(stdout, ResponseLine(DefaultResponse))
     /\ invocations' = Append(invocations,
          [inputData |-> inputData, payload |-> payload, handler |-> h,
           state |-> IF h # NoHandler THEN "awaiting" ELSE "done",
           result |-> IF h # NoHandler THEN Undefined ELSE DefaultResponse,
           line |-> IF h # NoHandler THEN 0 ELSE Len(stdout) + 1,
           buffered |-> Len(buffer)])
     /\ exit' = ExitAfterResponse(payload["hook_type"], exit)

\* handleHookPayload up to its first await: the handler is called and
\* awaited, or (no handler) the default response is printed at once.
HandleHookPayload(inputData) ==
  LET payload == TagPayload(inputData, hook_type)
      h == SelectHandler(payload, handlers)
  IN IF h # NoHandler
     THEN /\ invocations' = Append(invocations,
               [inputData |-> inputData, payload |-> payload, handler |-> h,
                state |-> "awaiting",
                result |-> Undefined, line |-> 0, buffered |-> Len(buffer)])
          /\ UNCHANGED <<stdout, exit>>
     ELSE /\ stdout' = Append(stdout, ResponseLine(DefaultResponse))
          /\ invocations' = Append(invocations,
               [inputData |-> inputData, payload |-> payload,
                handler |-> NoHandler, state |-> "done",
                result |-> DefaultResponse, line |-> Len(stdout) + 1,
                buffered |-> Len(buffer)])
          /\ exit' = ExitAfterResponse(payload["hook_type"], exit)

\* process.stdin.on('data', ...)
Data(chunk) ==
  /\ Running
  /\ ~ended
  /\ input' = input \o chunk
  /\ LET text == Accumulate(buffer, chunk)
         parsed == JSONParse(text)
     IN IF parsed.ok
        THEN /\ buffer' = <<>>
             /\ HandleHookPayload(parsed.value)
        ELSE /\ buffer' = text
             /\ UNCHANGED <<invocations, stdout, exit>>
  /\ UNCHANGED <<hook_type, handlers, ended, stderr>>
  /\ UNCHANGED storeVars
  /\ UNCHANGED sessionVars

\* process.stdin.on('end', ...)
End ==
  /\ Running
  /\ ~ended
  /\ ended' = TRUE
  /\ stderr' = EndDiagnostics(buffer, stderr)
  /\ UNCHANGED <<hook_type, handlers, buffer, input, invocations, stdout,
                 exit>>
  /\ UNCHANGED storeVars
  /\ UNCHANGED sessionVars

\* The awaited handler of invocation i resolves with value v:
\* handleHookPayload prints the response (and exits for a terminal case).
HandlerReturns(i, v) ==
  /\ Running
  /\ invocations[i].state = "awaiting"
  /\ stdout' = Append(stdout, ResponseLine(v))
  /\ invocations' = [invocations EXCEPT ![i].state = "done",
                                        ![i].result = v,
                                        ![i].line = Len(stdout) + 1]
  /\ exit' = ExitAfterResponse(invocations[i].payload["hook_type"], exit)
  /\ UNCHANGED <<hook_type, handlers, buffer, ended, input, stderr>>
  /\ UNCHANGED storeVars
  /\ UNCHANGED sessionVars

\* The handler of invocation i throws or rejects: the .catch of runHook logs
\* the error and prints the safe default.
HandlerFails(i) ==
  /\ Running
  /\ invocations[i].state = "awaiting"
  /\ stderr' = Append(stderr, HookErrorLog)
  /\ stdout' = Append(stdout, ResponseLine(SafeDefault))
  /\ invocations' = [invocations EXCEPT ![i].state = "caught",
                                        ![i].line = Len(stdout) + 1]
  /\ UNCHANGED <<hook_type, handlers, buffer, ended, input, exit>>
  /\ UNCHANGED storeVars
  /\ UNCHANGED sessionVars

Next ==
  \/ \E chunk \in Chunks(MaxInput - Len(input)) : Data(chunk)
  \/ End
  \/ \E i \in DOMAIN invocations : \E v \in ReturnValues : HandlerReturns(i, v)
  \/ \E i \in DOMAIN invocations : HandlerFails(i)

----------------------------------------------------------------------------
\* The transcript store: transcript files and their lines

\* Number of lines a transcript file holds at most.
MaxLines == 3

\* Transcript paths the process queries.
Paths == {"p1", "p2"}

\* const CACHE_TTL = 5 * 60 * 1000 // 5 minutes
CACHE_TTL == 5 * 60 * 1000

\* More JavaScript values: null, a number, an array, a one-word string.
Null == [type |-> "null"]
Num == [type |-> "number"]
Arr(items) == [type |-> "array", items |-> items]
Word(w) == Str(<<w>>)

\* v.k: the property k of an object, undefined when the object has none (and
\* on a number).
Prop(v, k) ==
  IF v.type = "object" /\ k \in DOMAIN v.fields THEN v.fields[k] ELSE Undefined

\* The truth value JavaScript gives v in a condition.
Truthy(v) ==
  /\ v.type \notin {"undefined", "null"}
  /\ v.type = "string" => v.text # <<>>

\* The character that separates joined text items.
NL == "\n"

\* Content items of a user message.
TextItem(s) == Obj([type |-> Word("text"), content |-> Str(s)])
ToolResultItem == Obj([type |-> Word("tool_result"), content |-> Str(<<"b">>)])

\* Content blocks of an assistant message; the last one is a tool_use block
\* without its optional input.
TextBlock(s) == Obj([type |-> Word("text"), text |-> Str(s)])
ToolUseBlock(name) ==
  Obj([type |-> Word("tool_use"), name |-> Word(name), input |-> Obj(NoFields)])
ToolUseNoInput == Obj([type |-> Word("tool_use"), name |-> Word("Read")])

\* The "message" property of a user or assistant line.
RoleMessage(role, content) == Obj([role |-> Word(role), content |-> content])

\* Member tokens of a transcript line and the "key": value pair each one
\* stands for.
LineMembers ==
  {"S", "U", "A", "ms", "mr", "mt", "ma", "m2", "t1", "t2", "s1", "s2", "v",
   "c", "g"}

LineMemberKey ==
  [S |-> "type", U |-> "type", A |-> "type",
   ms |-> "message", mr |-> "message", mt |-> "message", ma |-> "message",
   m2 |-> "message", t1 |-> "timestamp", t2 |-> "timestamp",
   s1 |-> "sessionId", s2 |-> "sessionId", v |-> "version", c |-> "cwd",
   g |-> "gitBranch"]

LineMemberVal ==
  [S |-> Word("summary"), U |-> Word("user"), A |-> Word("assistant"),
   ms |-> RoleMessage("user", Str(<<"A", "b">>)),
   mr |-> RoleMessage("user", Arr(<<ToolResultItem>>)),
   mt |-> RoleMessage("user",
            Arr(<<TextItem(<<"a">>), ToolResultItem, TextItem(<<"B">>)>>)),
   ma |-> RoleMessage("assistant",
            Arr(<<TextBlock(<<"a">>), ToolUseBlock("Bash"),
                  TextBlock(<<"B">>)>>)),
   m2 |-> RoleMessage("assistant",
            Arr(<<ToolUseBlock("Read"), ToolUseNoInput,
                  ToolUseBlock("Bash")>>)),
   t1 |-> Word("t1"), t2 |-> Word("t2"),
   s1 |-> Word("s1"), s2 |-> Word("s2"), v |-> Word("1.0"), c |-> Word("/w"),
   g |-> Word("main")]

\* The lines a transcript file is made of: a blank line, a line cut off in
\* the middle, a number, a summary, three user messages (string content, a
\* tool result only, text items) and two assistant messages.  The messages
\* carry the session fields the writer of the transcript gave them.
BlankLine == <<WS>>
GarbageLine == <<"{", "U">>
NumberLine == <<"5">>
SummaryLine == <<"{", "S", "}">>
UserStringLine == <<"{", "U", "ms", "t1", "s1", "v", "c", "g", "}">>
UserToolResultLine == <<"{", "U", "mr", "t1", "s1", "}">>
UserTextLine == <<"{", "U", "mt", "t1", "s1", "v", "c", "}">>
AssistantLine == <<"{", "A", "ma", "t2", "s2", "v", "c", "g", "}">>
AssistantToolsLine == <<"{", "A", "m2", "t2", "s2", "}">>

Lines ==
  {BlankLine, GarbageLine, NumberLine, SummaryLine, UserStringLine,
   UserToolResultLine, UserTextLine, AssistantLine, AssistantToolsLine}

\* Files of at most n lines.
FilesUpTo(n) == UNION {[1..k -> Lines] : k \in 0..n}

\* The fields of the object whose member tokens are ms (a later member with
\* the same key wins).
LineFieldsOf(ms) ==
  [k \in {LineMemberKey[ms[i]] : i \in DOMAIN ms} |->
     LET last == CHOOSE i \in DOMAIN ms :
                   /\ LineMemberKey[ms[i]] = k
                   /\ \A j \in DOMAIN ms : LineMemberKey[ms[j]] = k => j <= i
     IN LineMemberVal[ms[last]]]

\* JSON.parse(line) of a transcript line: a number, or an object
\* "{" member* "}"; ok = FALSE stands for the SyntaxError.
JSONParseLine(line) ==
  LET toks == SelectSeq(line, NonWS)
      n == Len(toks)
  IN IF toks = <<"5">>
     THEN [ok |-> TRUE, value |-> Num]
     ELSE IF /\ n >= 2
             /\ toks[1] = "{"
             /\ toks[n] = "}"
             /\ \A i \in 2..(n - 1) : toks[i] \in LineMembers
          THEN [ok |-> TRUE,
                value |-> Obj(LineFieldsOf(SubSeq(toks, 2, n - 1)))]
          ELSE [ok |-> FALSE, value |-> Undefined]

\* Variant: a line that does not parse is handed on as an empty object.
TryParseJSON_KeepBad(line) ==
  IF JSONParseLine(line).ok THEN JSONParseLine(line).value ELSE Obj(NoFields)

\* tryParseJSON: null for a blank line and for a line JSON.parse rejects.
TryParseJSON(line) ==
  IF Trim(line) = <<>> THEN Null
  ELSE IF JSONParseLine(line).ok THEN JSONParseLine(line).value ELSE Null

\* What readTranscriptLines yields for the lines it is given, in order: the
\* truthy values of tryParseJSON.
RECURSIVE ReadTranscriptLines(_)
ReadTranscriptLines(lines) ==
  IF lines = <<>> THEN <<>>
  ELSE LET message == TryParseJSON(Head(lines))
       IN (IF Truthy(message) THEN <<message>> ELSE <<>>)
            \o ReadTranscriptLines(Tail(lines))

\* The session ids of the payloads.
Sessions == {"s1", "s2"}

\* The tokens of the text of a session file: the brackets of the array and
\* one token per record; the record pushed by the p-th saver stands for its
\* {timestamp, hookType, payload}.
LeftBracket == [tok |-> "[", saver |-> 0]
RightBracket == [tok |-> "]", saver |-> 0]
SessionRecord(p) == [tok |-> "record", saver |-> p]

\* JSON.stringify(sessionData, null, 2)
SessionStringify(sessionData) ==
  <<LeftBracket>> \o sessionData \o <<RightBracket>>

\* JSON.parse(existing); ok = FALSE stands for the SyntaxError.
SessionParse(text) ==
  IF /\ Len(text) >= 2
     /\ text[1] = LeftBracket
     /\ text[Len(text)] = RightBracket
     /\ \A i \in 2..(Len(text) - 1) : text[i].tok = "record"
  THEN [ok |-> TRUE, value |-> SubSeq(text, 2, Len(text) - 1)]
  ELSE [ok |-> FALSE, value |-> <<>>]

\* No session file exists and no process has called saveSessionData.
NoSession ==
  /\ sessionFiles = [s \in Sessions |-> [exists |-> FALSE, text |-> <<>>]]
  /\ savers = <<>>

\* new Map()
EmptyMap == [k \in {} |-> Null]

\* The process right after the module was loaded: the clock starts, nothing
\* is cached, the sweep interval is registered, no query was made.
NoScan == [state |-> "idle"]

StoreLoaded ==
  /\ now = 0
  /\ transcriptCache = EmptyMap
  /\ timers = {"sweep"}
  /\ sweepAt = CACHE_TTL
  /\ calls = <<>>
  /\ events = 0
  /\ scan = NoScan

\* What keeps the event loop, and so the process, alive: the stdin listeners
\* until 'end', and every active interval timer.
EventLoopRefs == (IF ended THEN {} ELSE {"stdin"}) \cup timers

\* The start of a hook process: the runner before any stdin event, the
\* store loaded.
ProcessInit ==
  /\ Init
  /\ StoreLoaded
  /\ NoSession
  /\ files = [p \in Paths |-> <<>>]

\* A hook process: the runner, with the store loaded and not queried.
Spec == ProcessInit /\ [][Next]_allVars

----------------------------------------------------------------------------
\* The transcript store: getAllMessages and its cache

\* Number of getAllMessages calls in one process.
MaxCalls == 3

\* Number of clock steps in one process.
MaxTicks == 3

\* Number of store events (calls, completions, clock steps, appended lines)
\* in one process.
MaxEvents == 6

\* One more store event.
StoreEvent == events < MaxEvents /\ events' = events + 1

\* The clock advances in steps of half the TTL.
ClockStep == CACHE_TTL \div 2

\* Number of lines appended to the transcripts while the process runs.
MaxAppended == 1

\* Lines the writer of a transcript appends while the process runs.
AppendedLines == {UserStringLine}

RECURSIVE TotalLines(_, _)
TotalLines(fs, ps) ==
  IF ps = {} THEN 0
  ELSE LET p == CHOOSE q \in ps : TRUE
       IN Len(fs[p]) + TotalLines(fs, ps \ {p})

\* Variant: the map is emptied before the key is set.
MapSet_Alone(map, key, value) == [k \in {key} |-> value]

\* Variant: a key the map already holds keeps its value.
MapSet_KeepOld(map, key, value) ==
  [k \in DOMAIN map \cup {key} |->
     IF k \in DOMAIN map THEN map[k] ELSE value]

\* Map.prototype.set and Map.prototype.delete (of a set of keys)
MapSet(map, key, value) ==
  [k \in DOMAIN map \cup {key} |-> IF k = key THEN value ELSE map[k]]

MapDelete(map, keys) == [k \in DOMAIN map \ keys |-> map[k]]

\* Variant: an entry whose age is exactly the TTL still counts as fresh.
Fresh_Inclusive(entry, t) == t - entry.timestamp <= CACHE_TTL

\* Date.now() - cached.timestamp < CACHE_TTL
Fresh(entry, t) == t - entry.timestamp < CACHE_TTL

\* Variant: the map is consulted whatever useCache is.
CacheHit_AnyCall(path, useCache) ==
  /\ path \in DOMAIN transcriptCache
  /\ Fresh(transcriptCache[path], now)

\* if (useCache) { cached = transcriptCache.get(path); if (cached && ...) }
CacheHit(path, useCache) ==
  /\ useCache
  /\ path \in DOMAIN transcriptCache
  /\ Fresh(transcriptCache[path], now)

\* The call that stored the entry of path, 0 when the map has none.
StoredBy(path) ==
  IF path \in DOMAIN transcriptCache THEN transcriptCache[path].by ELSE 0

\* The calls that have returned.
Returned == {i \in DOMAIN calls : calls[i].state = "returned"}

ReadErrorLog == "Error reading transcript:"

\* Variant: a caching call joins the scan another caching call of the same
\* path has in flight instead of opening the file itself.
GetAllMessagesCall_Coalesced(path, useCache) ==
  /\ StoreEvent
  /\ Len(calls) < MaxCalls
  /\ calls' = Append(calls,
       IF CacheHit(path, useCache)
       THEN [path |-> path, useCache |-> useCache, at |-> now,
             prior |-> Returned, seen |-> StoredBy(path), state |-> "returned", hit |-> TRUE,
             reads |-> 0, failed |-> FALSE,
             result |-> transcriptCache[path].data, doneAt |-> now, cleared |-> FALSE]
       ELSE [path |-> path, useCache |-> useCache, at |-> now,
             prior |-> Returned, seen |-> StoredBy(path), state |-> "reading", hit |-> FALSE,
             reads |-> IF /\ useCache
                         /\ \E i \in DOMAIN calls :
                              /\ calls[i].state = "reading"
                              /\ calls[i].path = path
                              /\ calls[i].useCache
                      THEN 0 ELSE 1,
             failed |-> FALSE, result |-> <<>>,
             doneAt |-> now, cleared |-> FALSE])
  /\ UNCHANGED <<now, files, transcriptCache, timers, sweepAt, scan>>
  /\ UNCHANGED vars
  /\ UNCHANGED sessionVars

\* getAllMessages(path, useCache) up to its first await: a fresh entry is
\* returned at once, otherwise the file is opened and the scan begins.
\* at, prior and seen record the time of the call, the calls that had
\* returned by then and the entry the call found.
GetAllMessagesCall(path, useCache) ==
  /\ StoreEvent
  /\ Len(calls) < MaxCalls
  /\ calls' = Append(calls,
       IF CacheHit(path, useCache)
       THEN [path |-> path, useCache |-> useCache, at |-> now,
             prior |-> Returned, seen |-> StoredBy(path), state |-> "returned", hit |-> TRUE,
             reads |-> 0, failed |-> FALSE,
             result |-> transcriptCache[path].data, doneAt |-> now, cleared |-> FALSE]
       ELSE [path |-> path, useCache |-> useCache, at |-> now,
             prior |-> Returned, seen |-> StoredBy(path), state |-> "reading", hit |-> FALSE,
             reads |-> 1, failed |-> FALSE, result |-> <<>>,
             doneAt |-> now, cleared |-> FALSE])
  /\ UNCHANGED <<now, files, transcriptCache, timers, sweepAt, scan>>
  /\ UNCHANGED vars
  /\ UNCHANGED sessionVars

\* The scan of call i reaches the end of the file: the messages are stored
\* (when caching) with the time of completion, and returned.  by records
\* the call that stored the entry.
GetAllMessagesDone(i) ==
  /\ StoreEvent
  /\ calls[i].state = "reading"
  /\ LET messages == ReadTranscriptLines(files[calls[i].path])
     IN /\ calls' = [calls EXCEPT ![i].state = "returned",
                                  ![i].result = messages,
                                  ![i].doneAt = now]
        /\ transcriptCache' =
             IF calls[i].useCache
             THEN MapSet(transcriptCache, calls[i].path,
                         [data |-> messages, timestamp |-> now, by |-> i])
             ELSE transcriptCache
  /\ UNCHANGED <<now, files, timers, sweepAt, scan>>
  /\ UNCHANGED vars
  /\ UNCHANGED sessionVars

\* Variant: the messages read before the error are stored as well.
GetAllMessagesFails_Stores(i, k) ==
  /\ StoreEvent
  /\ calls[i].state = "reading"
  /\ k <= Len(files[calls[i].path])
  /\ calls' = [calls EXCEPT
       ![i].state = "returned",
       ![i].failed = TRUE,
       ![i].result = ReadTranscriptLines(SubSeq(files[calls[i].path], 1, k)),
       ![i].doneAt = now]
  /\ transcriptCache' =
       IF calls[i].useCache
       THEN MapSet(transcriptCache, calls[i].path,
                   [data |-> ReadTranscriptLines(
                               SubSeq(files[calls[i].path], 1, k)),
                    timestamp |-> now, by |-> i])
       ELSE transcriptCache
  /\ stderr' = Append(stderr, ReadErrorLog)
  /\ UNCHANGED <<now, files, timers, sweepAt, scan>>
  /\ UNCHANGED <<hook_type, handlers, buffer, ended, input, invocations,
                 stdout, exit>>
  /\ UNCHANGED sessionVars

\* The stream of call i raises an error after k lines: the catch logs it and
\* the messages read so far are returned; nothing is stored.
GetAllMessagesFails(i, k) ==
  /\ StoreEvent
  /\ calls[i].state = "reading"
  /\ k <= Len(files[calls[i].path])
  /\ calls' = [calls EXCEPT
       ![i].state = "returned",
       ![i].failed = TRUE,
       ![i].result = ReadTranscriptLines(SubSeq(files[calls[i].path], 1, k)),
       ![i].doneAt = now]
  /\ stderr' = Append(stderr, ReadErrorLog)
  /\ UNCHANGED <<now, files, transcriptCache, timers, sweepAt, scan>>
  /\ UNCHANGED <<hook_type, handlers, buffer, ended, input, invocations,
                 stdout, exit>>
  /\ UNCHANGED sessionVars

\* The calls, each call that is reading one of paths marked: its path was
\* cleared while its scan was in flight.
MarkCleared(paths) ==
  [i \in DOMAIN calls |->
     IF calls[i].state = "reading" /\ calls[i].path \in paths
     THEN [calls[i] EXCEPT !.cleared = TRUE]
     ELSE calls[i]]

\* Variant: the whole map is cleared whatever the argument.
ClearTranscriptCache_All(transcriptPath) ==
  /\ StoreEvent
  /\ transcriptCache' = EmptyMap
  /\ calls' = MarkCleared(Paths)
  /\ UNCHANGED <<now, files, timers, sweepAt, scan>>
  /\ UNCHANGED vars
  /\ UNCHANGED sessionVars

\* clearTranscriptCache(transcriptPath?)
ClearTranscriptCache(transcriptPath) ==
  /\ StoreEvent
  /\ transcriptCache' =
       IF transcriptPath # NoArg
       THEN MapDelete(transcriptCache, {transcriptPath})
       ELSE EmptyMap
  /\ calls' = MarkCleared(IF transcriptPath # NoArg THEN {transcriptPath}
                          ELSE Paths)
  /\ UNCHANGED <<now, files, timers, sweepAt, scan>>
  /\ UNCHANGED vars
  /\ UNCHANGED sessionVars

\* Variant: an entry whose age is exactly the TTL is swept as well.
Stale_Inclusive(entry, t) == t - entry.timestamp >= CACHE_TTL

\* Variant: an entry is swept only when older than twice the TTL.
Stale_Late(entry, t) == t - entry.timestamp > 2 * CACHE_TTL

\* now - cache.timestamp > CACHE_TTL
Stale(entry, t) == t - entry.timestamp > CACHE_TTL

\* The callback of the setInterval registered at module load.
Sweep ==
  /\ StoreEvent
  /\ "sweep" \in timers
  /\ now >= sweepAt
  /\ transcriptCache' =
       MapDelete(transcriptCache,
                 {p \in DOMAIN transcriptCache :
                    Stale(transcriptCache[p], now)})
  /\ sweepAt' = now + CACHE_TTL
  /\ UNCHANGED <<now, files, timers, calls, scan>>
  /\ UNCHANGED vars
  /\ UNCHANGED sessionVars

\* Time passes.
Tick ==
  /\ StoreEvent
  /\ now < MaxTicks * ClockStep
  /\ now' = now + ClockStep
  /\ UNCHANGED <<files, transcriptCache, timers, calls, sweepAt, scan>>
  /\ UNCHANGED vars
  /\ UNCHANGED sessionVars

\* The writer of the transcript appends a line to the file at path.
AppendLine(path, line) ==
  /\ StoreEvent
  /\ TotalLines(files, Paths) < MaxAppended
  /\ files' = [files EXCEPT ![path] = Append(@, line)]
  /\ UNCHANGED <<now, transcriptCache, timers, calls, sweepAt, scan>>
  /\ UNCHANGED vars
  /\ UNCHANGED sessionVars

\* The process a handler runs in, before any stdin event.
HandlerProcess ==
  /\ Init
  /\ hook_type = "PreToolUse"
  /\ handlers = {"preToolUse", "postToolUse"}

CacheInit ==
  /\ HandlerProcess
  /\ StoreLoaded
  /\ NoSession
  /\ files = [p \in Paths |-> <<>>]

CacheNext ==
  \/ \E path \in Paths : \E useCache \in BOOLEAN :
       GetAllMessagesCall(path, useCache)
  \/ \E i \in DOMAIN calls : GetAllMessagesDone(i)
  \/ \E i \in DOMAIN calls : \E k \in 0..MaxLines : GetAllMessagesFails(i, k)
  \/ \E transcriptPath \in Paths \cup {NoArg} :
       ClearTranscriptCache(transcriptPath)
  \/ Sweep
  \/ Tick
  \/ \E path \in Paths : \E line \in AppendedLines : AppendLine(path, line)

\* A process whose handler calls getAllMessages and clearTranscriptCache
\* while time passes and the transcripts grow.
CacheSpec == CacheInit /\ [][CacheNext]_allVars

\* Largest number of clock steps and of getAllMessages calls of a process
\* whose timer callback runs as soon as it is due.
MaxSweepTicks == 7
MaxSweepCalls == 2

\* Time passes in an event loop that is not blocked: not beyond the instant
\* the interval timer is due, whose callback runs first.
Elapse ==
  /\ now < sweepAt
  /\ now < MaxSweepTicks * ClockStep
  /\ now' = now + ClockStep
  /\ events' = 0
  /\ UNCHANGED <<files, transcriptCache, timers, calls, sweepAt, scan>>
  /\ UNCHANGED vars
  /\ UNCHANGED sessionVars

SweepNext ==
  \/ \E path \in Paths :
       Len(calls) < MaxSweepCalls /\ GetAllMessagesCall(path, TRUE)
  \/ \E i \in DOMAIN calls : GetAllMessagesDone(i)
  \/ Sweep
  \/ Elapse

\* A long-lived process whose handlers call getAllMessages while the
\* interval timer sweeps the cache.
SweepSpec == CacheInit /\ [][SweepNext]_allVars

----------------------------------------------------------------------------
\* The transcript store: the streaming queries, line by line

\* Largest window getLastNMessages is asked for.
MaxWindow == 2

\* Largest limit searchMessages is given.
MaxLimit == 2

\* Array.prototype.join
RECURSIVE Join(_, _)
Join(strs, sep) ==
  IF strs = <<>> THEN <<>>
  ELSE IF Len(strs) = 1 THEN strs[1]
  ELSE strs[1] \o sep \o Join(Tail(strs), sep)

\* String.prototype.toLowerCase
ToLowerCase(s) ==
  [i \in DOMAIN s |->
     IF s[i] = "A" THEN "a" ELSE IF s[i] = "B" THEN "b" ELSE s[i]]

\* String.prototype.includes
Includes(s, t) ==
  \E i \in 1..(Len(s) - Len(t) + 1) : SubSeq(s, i, i + Len(t) - 1) = t

\* The text of each of the items.
Texts(items, key) == [i \in DOMAIN items |-> Prop(items[i], key).text]

\* item.type === 'text' && typeof item.content === 'string'
IsTextItem(item) ==
  Prop(item, "type") = Word("text") /\ Prop(item, "content").type = "string"

NotFound == [found |-> FALSE, value |-> Null]

\* Variant: a user message whose items hold no text is answered with the
\* empty string.
InitialText_FirstUser(message) ==
  IF /\ Prop(message, "type") = Word("user")
     /\ Prop(Prop(message, "message"), "role") = Word("user")
  THEN LET content == Prop(Prop(message, "message"), "content")
       IN IF content.type = "string"
          THEN [found |-> TRUE, value |-> content]
          ELSE [found |-> TRUE,
                value |-> Str(Join(Texts(SelectSeq(content.items, IsTextItem),
                                         "content"), <<NL>>))]
  ELSE NotFound

\* The body of the loop of getInitialMessage: the text the message makes it
\* return, if any.
InitialText(message) ==
  IF /\ Prop(message, "type") = Word("user")
     /\ Prop(Prop(message, "message"), "role") = Word("user")
  THEN LET content == Prop(Prop(message, "message"), "content")
       IN IF content.type = "string"
          THEN [found |-> TRUE, value |-> content]
          ELSE IF content.type = "array"
          THEN LET textContent ==
                     Join(Texts(SelectSeq(content.items, IsTextItem),
                                "content"), <<NL>>)
               IN IF Truthy(Str(textContent))
                  THEN [found |-> TRUE, value |-> Str(textContent)]
                  ELSE NotFound
          ELSE NotFound
  ELSE NotFound

\* Variant: a full window keeps its messages and drops the new one.
WindowPush_KeepOldest(messages, message, n) ==
  IF Len(messages) + 1 > n THEN SubSeq(Append(messages, message), 1, n)
  ELSE Append(messages, message)

\* Variant: the window is cut when it has reached n.
WindowPush_Early(messages, message, n) ==
  IF Len(messages) + 1 >= n THEN Tail(Append(messages, message))
  ELSE Append(messages, message)

\* messages.push(message); if (messages.length > n) messages.shift()
WindowPush(messages, message, n) ==
  IF Len(messages) + 1 > n THEN Tail(Append(messages, message))
  ELSE Append(messages, message)

\* The options of searchMessages: limit is <<>> when none is given.
LimitReached(limit, count) ==
  limit # <<>> /\ limit[1] # 0 /\ count >= limit[1]

\* item.type === 'text' && typeof item.text === 'string'
IsTextString(item) ==
  Prop(item, "type") = Word("text") /\ Prop(item, "text").type = "string"

\* item.type === 'text' && item.text
IsTextBlock(item) ==
  Prop(item, "type") = Word("text") /\ Truthy(Prop(item, "text"))

\* The body of the loop of searchMessages: found.
Found(message, searchText, caseSensitive) ==
  LET searchLower ==
        IF caseSensitive THEN searchText ELSE ToLowerCase(searchText)
      content == Prop(Prop(message, "message"), "content")
  IN IF Prop(message, "type") = Word("user") /\ content.type = "string"
     THEN Includes(IF caseSensitive THEN content.text
                   ELSE ToLowerCase(content.text), searchLower)
     ELSE IF Prop(message, "type") = Word("assistant")
     THEN LET blocks == SelectSeq(content.items, IsTextBlock)
              textContent ==
                Join([i \in DOMAIN blocks |->
                        IF caseSensitive THEN Prop(blocks[i], "text").text
                        ELSE ToLowerCase(Prop(blocks[i], "text").text)],
                     <<>>)
          IN Includes(textContent, searchLower)
     ELSE FALSE

\* item.type === 'tool_use' && typeof item.name === 'string' && !!item.input
IsToolUse(item) ==
  /\ Prop(item, "type") = Word("tool_use")
  /\ Prop(item, "name").type = "string"
  /\ Truthy(Prop(item, "input"))

\* Variant: only the first tool use of a message is reported.
ToolUses_FirstOnly(message) ==
  IF Prop(message, "type") = Word("assistant")
  THEN LET toolUses ==
             SelectSeq(Prop(Prop(message, "message"), "content").items,
                       IsToolUse)
       IN IF toolUses = <<>> THEN <<>>
          ELSE <<[tool |-> Prop(toolUses[1], "name"),
                  input |-> Prop(toolUses[1], "input"),
                  timestamp |-> Prop(message, "timestamp")]>>
  ELSE <<>>

\* The body of the loop of streamToolUsage: what the message makes it yield.
ToolUses(message) ==
  IF Prop(message, "type") = Word("assistant")
  THEN LET toolUses ==
             SelectSeq(Prop(Prop(message, "message"), "content").items,
                       IsToolUse)
       IN [i \in DOMAIN toolUses |->
             [tool |-> Prop(toolUses[i], "name"),
              input |-> Prop(toolUses[i], "input"),
              timestamp |-> Prop(message, "timestamp")]]
  ELSE <<>>

\* Variant: the text items of a user message are joined without a separator.
ConversationEntry_NoSeparator(message) ==
  IF /\ Prop(message, "type") = Word("user")
     /\ Prop(Prop(message, "message"), "role") = Word("user")
  THEN LET c == Prop(Prop(message, "message"), "content")
           content ==
             IF c.type = "string" THEN c.text
             ELSE IF c.type = "array"
             THEN Join(Texts(SelectSeq(c.items, IsTextItem), "content"),
                       <<>>)
             ELSE <<>>
       IN IF Truthy(Str(content))
          THEN <<[role |-> "user", content |-> Str(content)]>>
          ELSE <<>>
  ELSE IF Prop(message, "type") = Word("assistant")
  THEN LET textContent ==
             Join(Texts(SelectSeq(Prop(Prop(message, "message"),
                                       "content").items, IsTextString),
                        "text"), <<>>)
       IN IF Truthy(Str(textContent))
          THEN <<[role |-> "assistant", content |-> Str(textContent)]>>
          ELSE <<>>
  ELSE <<>>

\* The body of the loop of streamConversationHistory: what the message
\* makes it yield.  A summary yields nothing.
ConversationEntry(message) ==
  IF Prop(message, "type") = Word("summary") THEN <<>>
  ELSE IF /\ Prop(message, "type") = Word("user")
          /\ Prop(Prop(message, "message"), "role") = Word("user")
  THEN LET c == Prop(Prop(message, "message"), "content")
           content ==
             IF c.type = "string" THEN c.text
             ELSE IF c.type = "array"
             THEN Join(Texts(SelectSeq(c.items, IsTextItem), "content"),
                       <<NL>>)
             ELSE <<>>
       IN IF Truthy(Str(content))
          THEN <<[role |-> "user", content |-> Str(content)]>>
          ELSE <<>>
  ELSE IF Prop(message, "type") = Word("assistant")
  THEN LET textContent ==
             Join(Texts(SelectSeq(Prop(Prop(message, "message"),
                                       "content").items, IsTextString),
                        "text"), <<>>)
       IN IF Truthy(Str(textContent))
          THEN <<[role |-> "assistant", content |-> Str(textContent)]>>
          ELSE <<>>
  ELSE <<>>

\* message.type === 'user' || message.type === 'assistant'
IsConversation(message) ==
  Prop(message, "type") \in {Word("user"), Word("assistant")}

\* Variant: every field is taken from the first message.
SessionMetadata_FirstOnly(firstMessage, lastMessage) ==
  IF ~Truthy(firstMessage) THEN Obj(NoFields)
  ELSE Obj([sessionId |-> Prop(firstMessage, "sessionId"),
            version |-> Prop(firstMessage, "version"),
            cwd |-> Prop(firstMessage, "cwd"),
            gitBranch |-> Prop(firstMessage, "gitBranch"),
            firstTimestamp |-> Prop(firstMessage, "timestamp"),
            lastTimestamp |-> Prop(firstMessage, "timestamp")])

\* What getSessionMetadata returns after its loop.  lastMessage?.timestamp
\* is undefined for a null lastMessage.
SessionMetadata(firstMessage, lastMessage) ==
  IF ~Truthy(firstMessage) THEN Obj(NoFields)
  ELSE Obj([sessionId |-> Prop(firstMessage, "sessionId"),
            version |-> Prop(firstMessage, "version"),
            cwd |-> Prop(firstMessage, "cwd"),
            gitBranch |-> Prop(firstMessage, "gitBranch"),
            firstTimestamp |-> Prop(firstMessage, "timestamp"),
            lastTimestamp |-> IF lastMessage = Null THEN Undefined
                              ELSE Prop(lastMessage, "timestamp")])

\* Search texts and limits given to searchMessages.
SearchTexts == {<<"a">>, <<"A", "B">>}
Limits == {<<>>} \cup {<<k>> : k \in 0..MaxLimit}

\* A query on the transcript at path, its stream just opened.  consumed
\* counts the lines taken from the line reader; failed records that the
\* stream raised an error.
Query(op, path) ==
  [op |-> op, path |-> path, useCache |-> TRUE, n |-> 0, searchText |-> <<>>,
   caseSensitive |-> FALSE, limit |-> <<>>, state |-> "scanning",
   open |-> TRUE, consumed |-> 0, messages |-> <<>>, count |-> 0,
   firstMessage |-> Null, lastMessage |-> Null, failed |-> FALSE,
   result |-> Undefined]

\* The queries a handler makes.
Queries ==
  {Query("getInitialMessage", "p1"), Query("getToolUsage", "p1"),
   Query("getConversationHistory", "p1"), Query("getSessionMetadata", "p1")}
    \cup {[Query("getAllMessages", "p1") EXCEPT !.useCache = c] :
            c \in BOOLEAN}
    \cup {[Query("getLastNMessages", "p1") EXCEPT !.n = n] :
            n \in 0..MaxWindow}
    \cup {[Query("searchMessages", "p1") EXCEPT
             !.searchText = t, !.caseSensitive = c, !.limit = l] :
            t \in SearchTexts, c \in BOOLEAN, l \in Limits}

\* The line reader of the scan has no further line.
AtEOF == scan.consumed = Len(files[scan.path])

\* tryParseJSON of the line the reader hands over next.
NextMessage == TryParseJSON(files[scan.path][scan.consumed + 1])

\* The scan runs on; the generator's finally block (rl.close(),
\* fileStream.destroy()) runs when the query returns.
Scanning(op) == scan.state = "scanning" /\ scan.op = op

\* Variant: the query returns without the generator's finally block.
Returns_KeepOpen(s, value) ==
  [s EXCEPT !.state = "returned", !.result = value]

\* The query returns value; leaving the for-await loop runs the finally
\* block of readTranscriptLines.
Returns(s, value) ==
  [s EXCEPT !.state = "returned", !.open = FALSE, !.result = value]

QueryFrame ==
  /\ UNCHANGED <<now, files, timers, sweepAt, calls, events>>
  /\ UNCHANGED vars
  /\ UNCHANGED sessionVars

\* A handler calls one of the queries.
CallQuery(q) ==
  /\ scan.state = "idle"
  /\ scan' = q
  /\ UNCHANGED transcriptCache
  /\ QueryFrame

\* Variant: the first text is kept and the file is read to its end.
GetInitialMessageStep_ReadAll ==
  /\ Scanning("getInitialMessage")
  /\ IF AtEOF
     THEN scan' = Returns(scan, IF scan.messages = <<>> THEN Null
                                ELSE scan.messages[1])
     ELSE LET message == NextMessage
              s == [scan EXCEPT !.consumed = @ + 1]
          IN IF /\ Truthy(message)
                /\ InitialText(message).found
                /\ scan.messages = <<>>
             THEN scan' = [s EXCEPT
                             !.messages = <<InitialText(message).value>>]
             ELSE scan' = s
  /\ UNCHANGED transcriptCache
  /\ QueryFrame

\* getInitialMessage: one turn of its loop.
GetInitialMessageStep ==
  /\ Scanning("getInitialMessage")
  /\ IF AtEOF
     THEN scan' = Returns(scan, Null)
     ELSE LET message == NextMessage
              s == [scan EXCEPT !.consumed = @ + 1]
          IN IF Truthy(message) /\ InitialText(message).found
             THEN scan' = Returns(s, InitialText(message).value)
             ELSE scan' = s
  /\ UNCHANGED transcriptCache
  /\ QueryFrame

\* getAllMessages on a path with no cache entry: one turn of its loop.
GetAllMessagesStep ==
  /\ Scanning("getAllMessages")
  /\ IF AtEOF
     THEN /\ scan' = Returns(scan, Arr(scan.messages))
          /\ transcriptCache' =
               IF scan.useCache
               THEN MapSet(transcriptCache, scan.path,
                           [data |-> scan.messages, timestamp |-> now,
                            by |-> 0])
               ELSE transcriptCache
     ELSE /\ LET message == NextMessage
                 s == [scan EXCEPT !.consumed = @ + 1]
             IN IF Truthy(message)
                THEN scan' = [s EXCEPT !.messages = Append(@, message)]
                ELSE scan' = s
          /\ UNCHANGED transcriptCache
  /\ QueryFrame

\* getLastNMessages: one turn of its loop.
GetLastNMessagesStep ==
  /\ Scanning("getLastNMessages")
  /\ IF AtEOF
     THEN scan' = Returns(scan, Arr(scan.messages))
     ELSE LET message == NextMessage
              s == [scan EXCEPT !.consumed = @ + 1]
          IN IF Truthy(message)
             THEN scan' = [s EXCEPT
                             !.messages = WindowPush(@, message, scan.n)]
             ELSE scan' = s
  /\ UNCHANGED transcriptCache
  /\ QueryFrame

\* searchMessages, drained by its caller: one turn of its loop.
SearchMessagesStep ==
  /\ Scanning("searchMessages")
  /\ IF AtEOF
     THEN scan' = Returns(scan, Arr(scan.messages))
     ELSE LET message == NextMessage
              s == [scan EXCEPT !.consumed = @ + 1]
          IN IF /\ Truthy(message)
                /\ Found(message, scan.searchText, scan.caseSensitive)
             THEN LET t == [s EXCEPT !.messages = Append(@, message),
                                     !.count = @ + 1]
                  IN IF LimitReached(scan.limit, t.count)
                     THEN scan' = Returns(t, Arr(t.messages))
                     ELSE scan' = t
             ELSE scan' = s
  /\ UNCHANGED transcriptCache
  /\ QueryFrame

\* getToolUsage, which collects streamToolUsage: one turn of its loop.
GetToolUsageStep ==
  /\ Scanning("getToolUsage")
  /\ IF AtEOF
     THEN scan' = Returns(scan, Arr(scan.messages))
     ELSE LET message == NextMessage
              s == [scan EXCEPT !.consumed = @ + 1]
          IN IF Truthy(message)
             THEN scan' = [s EXCEPT !.messages = @ \o ToolUses(message)]
             ELSE scan' = s
  /\ UNCHANGED transcriptCache
  /\ QueryFrame

\* getConversationHistory, which collects streamConversationHistory: one
\* turn of its loop.
GetConversationHistoryStep ==
  /\ Scanning("getConversationHistory")
  /\ IF AtEOF
     THEN scan' = Returns(scan, Arr(scan.messages))
     ELSE LET message == NextMessage
              s == [scan EXCEPT !.consumed = @ + 1]
          IN IF Truthy(message)
             THEN scan' = [s EXCEPT
                             !.messages = @ \o ConversationEntry(message)]
             ELSE scan' = s
  /\ UNCHANGED transcriptCache
  /\ QueryFrame

\* getSessionMetadata: one turn of its loop.
GetSessionMetadataStep ==
  /\ Scanning("getSessionMetadata")
  /\ IF AtEOF
     THEN scan' = Returns(scan, SessionMetadata(scan.firstMessage,
                                                scan.lastMessage))
     ELSE LET message == NextMessage
              s == [scan EXCEPT !.consumed = @ + 1]
          IN IF Truthy(message) /\ IsConversation(message)
             THEN scan' = [s EXCEPT
                             !.firstMessage =
                               IF ~Truthy(@) THEN message ELSE @,
                             !.lastMessage = message]
             ELSE scan' = s
  /\ UNCHANGED transcriptCache
  /\ QueryFrame

\* The queries that wrap their loop in try / catch.
Catching == {"getInitialMessage", "getAllMessages"}

\* The file stream of the scan raises an error (the file is missing, or
\* cannot be read further): the line reader's iterator rejects and the
\* generator's finally block runs.  getInitialMessage and getAllMessages
\* catch and log it, returning null and the messages read so far; in the
\* other queries the rejection reaches the caller.
ReadFails ==
  /\ scan.state = "scanning"
  /\ IF scan.op \in Catching
     THEN /\ scan' = [Returns(scan, IF scan.op = "getInitialMessage"
                                    THEN Null ELSE Arr(scan.messages))
                        EXCEPT !.failed = TRUE]
          /\ stderr' = Append(stderr, ReadErrorLog)
     ELSE /\ scan' = [scan EXCEPT !.state = "rejected", !.open = FALSE,
                                  !.failed = TRUE]
          /\ UNCHANGED stderr
  /\ UNCHANGED <<now, files, transcriptCache, timers, sweepAt, calls, events>>
  /\ UNCHANGED <<hook_type, handlers, buffer, ended, input, invocations,
                 stdout, exit>>
  /\ UNCHANGED sessionVars

QueryInit ==
  /\ HandlerProcess
  /\ StoreLoaded
  /\ NoSession
  /\ \E f \in FilesUpTo(MaxLines) : files = [p \in Paths |->
                                                IF p = "p1" THEN f ELSE <<>>]

QueryNext ==
  \/ \E q \in Queries : CallQuery(q)
  \/ GetInitialMessageStep
  \/ GetAllMessagesStep
  \/ GetLastNMessagesStep
  \/ SearchMessagesStep
  \/ GetToolUsageStep
  \/ GetConversationHistoryStep
  \/ GetSessionMetadataStep
  \/ ReadFails

\* A process whose handler makes one query on a transcript.
QuerySpec == QueryInit /\ [][QueryNext]_allVars

----------------------------------------------------------------------------
\* Properties of the hook runner

Range(seq) == {seq[i] : i \in DOMAIN seq}

\* The HookHandlers key of each category.
CategoryKey ==
  [PreToolUse |-> "preToolUse", PostToolUse |-> "postToolUse",
   Notification |-> "notification", Stop |-> "stop",
   SubagentStop |-> "subagentStop", UserPromptSubmit |-> "userPromptSubmit",
   PreCompact |-> "preCompact", SessionStart |-> "sessionStart"]

\* The handler registered for the category argument, NoHandler if the
\* argument names no category or the registry has no handler for it.
RegisteredHandler ==
  IF hook_type \in Categories /\ CategoryKey[hook_type] \in handlers
  THEN CategoryKey[hook_type]
  ELSE NoHandler

EmptyObjectLine == <<"{", "}">>
SafeDefaultLine == <<"{", "a", "}">>

\* Some prefix of text of a length in lens is a complete JSON value.
ParsesAt(text, lens) ==
  \E k \in lens : k <= Len(text) /\ JSONParse(SubSeq(text, 1, k)).ok

\* C1: the handler an invocation calls is the one registered for the
\* category argument, whatever hook_event_name or hook_type the payload
\* carries; the payload never selects a handler.
C1_DispatchByArgumentOnly ==
  \A i \in DOMAIN invocations :
    /\ invocations[i].handler = RegisteredHandler
    /\ invocations[i].payload["hook_type"] = hook_type

\* A payload naming Stop in hook_event_name, with a stop handler registered,
\* was dispatched to the handler of another category given as the argument.
C1_Witness ==
  \E i \in DOMAIN invocations :
    /\ "hook_event_name" \in DOMAIN invocations[i].inputData.fields
    /\ invocations[i].inputData.fields["hook_event_name"] = "Stop"
    /\ "stop" \in handlers
    /\ hook_type \in Categories \ {"Stop"}
    /\ invocations[i].handler = CategoryKey[hook_type]

\* C2: a completed invocation with a registered handler wrote the JSON
\* serialization of the value the handler returned (the line parses back to
\* that value; for a handler that returned nothing it is what console.log
\* prints for JSON.stringify(undefined)); with no registered handler the
\* line is the empty object.
C2_ResponseIsHandlerResult ==
  \A i \in DOMAIN invocations :
    invocations[i].state = "done" =>
      /\ invocations[i].line \in DOMAIN stdout
      /\ LET line == stdout[invocations[i].line]
             result == invocations[i].result
         IN IF RegisteredHandler # NoHandler
            THEN /\ invocations[i].handler = RegisteredHandler
                 /\ result.type = "object" =>
                      JSONParse(line) = [ok |-> TRUE, value |-> result]
                 /\ result.type = "undefined" => line = <<"undefined">>
            ELSE line = EmptyObjectLine

\* A registered handler returned a non-empty object and it was written.
C2_Witness ==
  \E i \in DOMAIN invocations :
    /\ invocations[i].state = "done"
    /\ invocations[i].handler # NoHandler
    /\ invocations[i].result = Obj([k \in {"decision"} |-> "block"])
    /\ stdout[invocations[i].line] = <<"{", "d", "}">>

\* C3: when a handler throws or rejects, for any category, the runner logs
\* 'Hook error:' on stderr (once per failure), the response written for that
\* invocation is exactly {"action":"continue"}, and the process is not
\* brought down: no exit with a failing code.
C3_HandlerFailureIsContained ==
  LET caught == {i \in DOMAIN invocations : invocations[i].state = "caught"}
      logged == {j \in DOMAIN stderr : stderr[j] = HookErrorLog}
  IN /\ Cardinality(logged) = Cardinality(caught)
     /\ \A i \in caught :
          /\ invocations[i].line \in DOMAIN stdout
          /\ stdout[invocations[i].line] = SafeDefaultLine
     /\ \A c \in Range(exit) : c = 0

\* The handler of a terminal category failed and the default was written.
C3_Witness ==
  \E i \in DOMAIN invocations :
    /\ invocations[i].state = "caught"
    /\ hook_type = "Stop"
    /\ stdout = <<SafeDefaultLine>>
    /\ stderr = <<HookErrorLog>>

\* C4 (as stated): once stdin has delivered a complete JSON value, whatever
\* follows, stdout holds at most one line, and exactly one as soon as no
\* handler is pending.
C4_ExactlyOneLine ==
  /\ Len(stdout) <= 1
  /\ (/\ invocations # <<>>
      /\ \A i \in DOMAIN invocations : invocations[i].state # "awaiting")
     => Len(stdout) = 1

\* C5 (as stated): at most one handler invocation happens in a process, and
\* it is of the handler registered for the category argument.
C5_AtMostOneInvocation ==
  LET called == {i \in DOMAIN invocations : invocations[i].handler # NoHandler}
  IN /\ Cardinality(called) <= 1
     /\ \A i \in called : invocations[i].handler = RegisteredHandler

\* C6: while no prefix of the received input is a complete JSON value, no
\* handler has been invoked and nothing has been written; when the received
\* input is a complete JSON value and no proper prefix of it is, exactly one
\* dispatch has happened, nothing is written while its handler is pending,
\* and once it has completed stdout holds exactly one line, the response of
\* that dispatch.
C6_ChunkedPayload ==
  LET n == Len(input)
      whole == JSONParse(input).ok
      proper == ParsesAt(input, 1..(n - 1))
  IN /\ (~whole /\ ~proper) => (invocations = <<>> /\ stdout = <<>>)
     /\ (whole /\ ~proper) =>
          /\ Len(invocations) = 1
          /\ invocations[1].inputData = JSONParse(input).value
          /\ invocations[1].state = "awaiting" => stdout = <<>>
          /\ invocations[1].state # "awaiting" =>
               /\ Len(stdout) = 1
               /\ invocations[1].line = 1
               /\ invocations[1].state = "caught" =>
                    stdout[1] = SafeDefaultLine
               /\ (invocations[1].state = "done"
                   /\ invocations[1].handler = NoHandler) =>
                    stdout[1] = EmptyObjectLine
               /\ (invocations[1].state = "done"
                   /\ invocations[1].handler # NoHandler) =>
                    stdout[1] = ConsoleLine(JSONStringify(invocations[1].result))

\* A payload that arrived in several chunks, none of its proper prefixes a
\* JSON value, was answered with the object its handler returned.
C6_Witness ==
  /\ JSONParse(input).ok
  /\ ~ParsesAt(input, 1..(Len(input) - 1))
  /\ Len(invocations) = 1
  /\ invocations[1].buffered > 0
  /\ invocations[1].state = "done"
  /\ invocations[1].handler # NoHandler
  /\ stdout = <<<<"{", "d", "}">>>>

\* C7 (as stated): if stdin ends while the buffer is non-empty and
\* unparseable, malformed input is reported on stderr and stdout holds no
\* line at any point of the invocation.
C7_MalformedAsStated ==
  (ended /\ buffer # <<>> /\ ~JSONParse(buffer).ok) =>
    (IncompleteLog \in Range(stderr) /\ stdout = <<>>)

\* C7 (amended): after stdin has ended, malformed input is on stderr exactly
\* when the buffer holds more than whitespace; no response is ever written
\* for buffered text, so stdout holds no more lines than values were parsed
\* and is empty when none was.
C7_MalformedInput ==
  ended =>
    /\ (Trim(buffer) # <<>>) <=> (IncompleteLog \in Range(stderr))
    /\ Trim(buffer) # <<>> => ~JSONParse(buffer).ok
    /\ Len(stdout) <= Len(invocations)
    /\ invocations = <<>> => stdout = <<>>

\* Stdin ended on an incomplete value: reported, and nothing on stdout.
C7_Witness ==
  /\ ended
  /\ Trim(buffer) # <<>>
  /\ Len(buffer) >= 2
  /\ stderr = <<IncompleteLog>>
  /\ invocations = <<>>
  /\ stdout = <<>>

\* C8 (as stated): for a terminal category, a written response is followed
\* at once by process.exit(0), however the response was produced; for any
\* other category exit is never called.
C8_TerminalExit ==
  IF hook_type \in {"Stop", "SubagentStop"}
  THEN stdout # <<>> => exit = <<0>>
  ELSE exit = <<>>

\* C9: when the category argument is no known category (or is missing), no
\* handler is invoked, every dispatch writes the empty object, and exit is
\* not called.
C9_UnknownCategory ==
  hook_type \notin Categories =>
    /\ \A i \in DOMAIN invocations :
         /\ invocations[i].handler = NoHandler
         /\ invocations[i].state = "done"
         /\ invocations[i].line = i
    /\ Len(stdout) = Len(invocations)
    /\ \A j \in DOMAIN stdout : stdout[j] = EmptyObjectLine
    /\ exit = <<>>
    /\ HookErrorLog \notin Range(stderr)

\* No category argument, handlers registered, a payload that carries its own
\* hook_type: answered with the empty object.
C9_Witness ==
  /\ hook_type = NoArg
  /\ "preToolUse" \in handlers
  /\ \E i \in DOMAIN invocations :
       /\ "hook_type" \in DOMAIN invocations[i].inputData.fields
  /\ stdout = <<EmptyObjectLine>>

\* C10 (as stated): every line the runner writes to stdout parses as a JSON
\* value.
C10_StdoutIsJSON ==
  \A j \in DOMAIN stdout : JSONParse(stdout[j]).ok

\* C12: the runner sets no deadline on the handler.  A response line is
\* written for an invocation only once its handler has completed: while a
\* handler is pending its invocation has no line, the lines on stdout are
\* exactly those of the completed invocations, and while no dispatched
\* handler has completed nothing has been written and exit has not been
\* called, whether or not stdin has ended.
C12_NoResponseBeforeCompletion ==
  LET pending == {i \in DOMAIN invocations : invocations[i].state = "awaiting"}
  IN /\ \A i \in pending : invocations[i].line = 0
     /\ Len(stdout) = Cardinality(DOMAIN invocations \ pending)
     /\ pending = DOMAIN invocations => stdout = <<>> /\ exit = <<>>

\* stdin has ended, a handler is still pending, nothing has been written.
C12_Witness ==
  /\ ended
  /\ invocations # <<>>
  /\ \A i \in DOMAIN invocations : invocations[i].state = "awaiting"
  /\ stdout = <<>>
  /\ exit = <<>>

\* C11: for a non-terminal category, once stdin has closed and the response
\* of the completed handler is written, nothing keeps the event loop busy:
\* the process can end (with exit code 0) instead of staying alive on
\* something the library started.
C11_ProcessTerminates ==
  ( /\ hook_type \in Categories
    /\ ~IsTerminal(hook_type)
    /\ ended
    /\ Len(invocations) = 1
    /\ invocations[1].handler # NoHandler
    /\ invocations[1].state = "done"
    /\ invocations[1].result.type = "object"
    /\ Len(stdout) = 1 )
  => EventLoopRefs = {}

----------------------------------------------------------------------------
\* Properties of the transcript store

\* C13 as stated: of two caching calls for one path, the second made after
\* the first returned successfully and less than the TTL after the first
\* was made (and while the map holds an entry for the path), the second
\* reads no file and returns what the first returned; and a call that finds
\* an entry whose TTL has expired reads the file.
C13_TwoCallsWithinTTL ==
  \A j \in DOMAIN calls :
    /\ \A i \in calls[j].prior :
         ( /\ calls[i].path = calls[j].path
           /\ calls[i].useCache /\ calls[j].useCache
           /\ ~calls[i].failed
           /\ calls[j].seen # 0
           /\ calls[j].at - calls[i].at < CACHE_TTL )
         => /\ calls[j].reads = 0
            /\ calls[j].state = "returned"
            /\ calls[j].result = calls[i].result
    /\ ( /\ calls[j].useCache
         /\ calls[j].seen # 0
         /\ calls[j].at - calls[calls[j].seen].doneAt >= CACHE_TTL )
       => calls[j].reads = 1

\* C13, amended: every cache entry holds the result and the completion time
\* of the read that stored it; a caching call that finds the entry of its
\* path less than the TTL after that completion returns the stored sequence
\* without reading the file, whatever was appended since; one that finds it
\* at an age of the TTL or more reads the file again.
C13_CacheWindow ==
  /\ \A p \in DOMAIN transcriptCache :
       LET e == transcriptCache[p]
       IN /\ e.by \in Returned
          /\ calls[e.by].path = p
          /\ calls[e.by].useCache /\ ~calls[e.by].failed /\ ~calls[e.by].hit
          /\ e.data = calls[e.by].result
          /\ e.timestamp = calls[e.by].doneAt
  /\ \A j \in DOMAIN calls :
       calls[j].useCache /\ calls[j].seen # 0 =>
         LET i == calls[j].seen
         IN IF calls[j].at - calls[i].doneAt < CACHE_TTL
            THEN /\ calls[j].hit
                 /\ calls[j].reads = 0
                 /\ calls[j].state = "returned"
                 /\ calls[j].result = calls[i].result
            ELSE ~calls[j].hit /\ calls[j].reads = 1

\* A call served from an entry stored earlier, after the file has grown.
C13_Witness ==
  \E j \in DOMAIN calls :
    /\ calls[j].hit
    /\ calls[j].at > calls[calls[j].seen].doneAt
    /\ calls[j].result # ReadTranscriptLines(files[calls[j].path])

\* The messages of the transcript the query in progress reads.
Transcript == ReadTranscriptLines(files[scan.path])

Min(a, b) == IF a <= b THEN a ELSE b

\* The final k elements of seq.
LastOf(seq, k) == SubSeq(seq, Len(seq) - k + 1, Len(seq))

Finished(op) == scan.state = "returned" /\ scan.op = op /\ ~scan.failed

\* C14: getLastNMessages(path, n) returns the final min(n, m) of the m
\* messages of the transcript, in their order (none when n = 0).
C14_LastNMessages ==
  Finished("getLastNMessages") =>
    scan.result = Arr(LastOf(Transcript, Min(scan.n, Len(Transcript))))

\* A window of two messages returned from a transcript of three.
C14_Witness ==
  /\ Finished("getLastNMessages")
  /\ scan.n = 2
  /\ Len(Transcript) = 3
  /\ Len(scan.result.items) = 2

\* The message line k of the transcript gives (null when it gives none).
LineMessage(k) == TryParseJSON(files[scan.path][k])

\* Line k holds a message whose role is user.
IsUserLine(k) ==
  /\ Truthy(LineMessage(k))
  /\ Prop(LineMessage(k), "type") = Word("user")
  /\ Prop(Prop(LineMessage(k), "message"), "role") = Word("user")

\* The text items among items[i..], each followed by a newline unless it is
\* the last of them.
RECURSIVE TextLines(_, _)
TextLines(items, i) ==
  IF i > Len(items) THEN <<>>
  ELSE LET IsText(j) ==
             /\ Prop(items[j], "type") = Word("text")
             /\ Prop(items[j], "content").type = "string"
       IN (IF IsText(i)
           THEN Prop(items[i], "content").text
                  \o (IF \E j \in (i + 1)..Len(items) : IsText(j)
                      THEN <<NL>> ELSE <<>>)
           ELSE <<>>) \o TextLines(items, i + 1)

\* The textual content of a user message: string content as it is, array
\* content as its text items joined by newline.
UserText(message) ==
  LET content == Prop(Prop(message, "message"), "content")
  IN IF content.type = "string" THEN content.text
     ELSE TextLines(content.items, 1)

\* Line k holds a user message with string content or with some text.
HasUserText(k) ==
  /\ IsUserLine(k)
  /\ \/ Prop(Prop(LineMessage(k), "message"), "content").type = "string"
     \/ UserText(LineMessage(k)) # <<>>

\* The first line for which P holds, 0 if there is none.
FirstLine(P(_)) ==
  LET ks == {k \in DOMAIN files[scan.path] : P(k)}
  IN IF ks = {} THEN 0 ELSE CHOOSE k \in ks : \A j \in ks : k <= j

Parses(k) ==
  Trim(files[scan.path][k]) # <<>> /\ JSONParseLine(files[scan.path][k]).ok

\* The values of the lines among the first k that parse, in line order.
RECURSIVE ParsedUpTo(_)
ParsedUpTo(k) ==
  IF k = 0 THEN <<>>
  ELSE ParsedUpTo(k - 1)
         \o (IF Parses(k) THEN <<JSONParseLine(files[scan.path][k]).value>>
             ELSE <<>>)

MatchesUpTo(k) ==
  {j \in 1..k :
     /\ Truthy(LineMessage(j))
     /\ Found(LineMessage(j), scan.searchText, scan.caseSensitive)}

\* C18: with a limit k (any k >= 0, k = 0 included) searchMessages yields at
\* most k messages, and once the k-th match is yielded the scan has halted
\* without taking a further line.
C18_LimitRespected ==
  scan.state # "idle" /\ scan.op = "searchMessages" /\ scan.limit # <<>> =>
    LET k == scan.limit[1]
    IN /\ Len(scan.messages) <= k
       /\ Len(scan.messages) = k /\ k > 0 =>
            /\ scan.state = "returned"
            /\ scan.consumed \in MatchesUpTo(scan.consumed)
            /\ Cardinality(MatchesUpTo(scan.consumed)) = k

\* The textual content of a message: the string content or the joined text
\* items of a user message, the joined text blocks of an assistant message;
\* nothing for another line.
Textual(message) ==
  IF /\ Prop(message, "type") = Word("user")
     /\ \/ Prop(Prop(message, "message"), "content").type = "string"
        \/ UserText(message) # <<>>
  THEN <<UserText(message)>>
  ELSE IF Prop(message, "type") = Word("assistant")
  THEN LET blocks == SelectSeq(Prop(Prop(message, "message"), "content").items,
                               IsTextBlock)
       IN <<Join(Texts(blocks, "text"), <<>>)>>
  ELSE <<>>

\* The message has textual content that contains the search text, case
\* ignored unless the search is case sensitive.
Contains(message, searchText, caseSensitive) ==
  /\ Textual(message) # <<>>
  /\ IF caseSensitive THEN Includes(Textual(message)[1], searchText)
     ELSE Includes(ToLowerCase(Textual(message)[1]), ToLowerCase(searchText))

\* The messages among lines 1..k that contain the search text, in line order.
RECURSIVE ContainingUpTo(_)
ContainingUpTo(k) ==
  IF k = 0 THEN <<>>
  ELSE ContainingUpTo(k - 1)
         \o (IF /\ Truthy(LineMessage(k))
                /\ Contains(LineMessage(k), scan.searchText,
                            scan.caseSensitive)
             THEN <<LineMessage(k)>> ELSE <<>>)

\* C19: searchMessages without a limit yields, in log order, exactly the
\* messages whose textual content contains the search text (case ignored
\* unless caseSensitive), for user messages with string content, user
\* messages with text items and assistant text blocks.
C19_SearchFindsText ==
  Finished("searchMessages") /\ scan.limit = <<>> =>
    scan.result = Arr(ContainingUpTo(Len(files[scan.path])))

\* A content block of type tool_use; one that has a name and an input.
IsToolUseBlock(item) == Prop(item, "type") = Word("tool_use")

IsCompleteToolUse(item) ==
  /\ IsToolUseBlock(item)
  /\ Prop(item, "name").type = "string"
  /\ Prop(item, "input").type = "object"

\* One entry (tool name, input, timestamp of the message) for each tool_use
\* block of an assistant message, in block order; with complete, only for
\* the blocks that have a name and an input.
EntriesOf(message, complete) ==
  IF Prop(message, "type") = Word("assistant")
  THEN LET items == Prop(Prop(message, "message"), "content").items
           blocks == IF complete THEN SelectSeq(items, IsCompleteToolUse)
                     ELSE SelectSeq(items, IsToolUseBlock)
       IN [i \in DOMAIN blocks |->
             [tool |-> Prop(blocks[i], "name"),
              input |-> Prop(blocks[i], "input"),
              timestamp |-> Prop(message, "timestamp")]]
  ELSE <<>>

\* The entries of the messages of lines 1..k, in line order.
RECURSIVE EntriesUpTo(_, _)
EntriesUpTo(k, complete) ==
  IF k = 0 THEN <<>>
  ELSE EntriesUpTo(k - 1, complete)
         \o (IF Truthy(LineMessage(k))
             THEN EntriesOf(LineMessage(k), complete) ELSE <<>>)

\* The log of one summary, one user message and one assistant message that
\* holds one tool_use block.
ScenarioD == <<SummaryLine, UserStringLine, AssistantLine>>

\* C20 as stated: getToolUsage returns one entry for each tool_use block of
\* the assistant messages, in log order, and nothing for other messages.
C20_EveryToolUseBlock ==
  Finished("getToolUsage") =>
    scan.result = Arr(EntriesUpTo(Len(files[scan.path]), FALSE))

\* C20, amended: getToolUsage returns one entry (tool name, input object,
\* timestamp of the containing message) for each tool_use block of the
\* assistant messages that has a string name and an input, in message order
\* and then block order, and nothing for a tool_use block without them or
\* for summary or user messages; the log of one summary, one user message
\* and one assistant message with one tool_use block gives one entry.
C20_ToolUsage ==
  Finished("getToolUsage") =>
    /\ scan.result = Arr(EntriesUpTo(Len(files[scan.path]), TRUE))
    /\ files[scan.path] = ScenarioD =>
         scan.result = Arr(<<[tool |-> Word("Bash"), input |-> Obj(NoFields),
                              timestamp |-> Word("t2")]>>)

\* The scenario's log has been read and its one entry returned.
C20_Witness ==
  /\ Finished("getToolUsage")
  /\ files[scan.path] = ScenarioD
  /\ Len(scan.result.items) = 1

\* The lines that hold a user or an assistant message.
ConversationLines ==
  {k \in DOMAIN files[scan.path] :
     /\ Truthy(LineMessage(k))
     /\ \/ Prop(LineMessage(k), "type") = Word("user")
        \/ Prop(LineMessage(k), "type") = Word("assistant")}

\* C21: getSessionMetadata takes sessionId, version, cwd, gitBranch and
\* firstTimestamp from the first user-or-assistant message of the log and
\* lastTimestamp from the last one, summary lines being ignored for both;
\* it returns the empty object when the log has no such message.
C21_SessionMetadata ==
  Finished("getSessionMetadata") =>
    IF ConversationLines = {}
    THEN scan.result = Obj(NoFields)
    ELSE LET first == CHOOSE k \in ConversationLines :
                        \A j \in ConversationLines : k <= j
             last == CHOOSE k \in ConversationLines :
                       \A j \in ConversationLines : j <= k
         IN /\ \A f \in {"sessionId", "version", "cwd", "gitBranch"} :
                 Prop(scan.result, f) = Prop(LineMessage(first), f)
            /\ Prop(scan.result, "firstTimestamp") =
                 Prop(LineMessage(first), "timestamp")
            /\ Prop(scan.result, "lastTimestamp") =
                 Prop(LineMessage(last), "timestamp")

\* An assistant message, a summary and a user message: the session fields
\* are the assistant's, the last timestamp is the user's.
C21_Witness ==
  /\ Finished("getSessionMetadata")
  /\ files[scan.path] = <<AssistantToolsLine, SummaryLine, UserStringLine>>
  /\ Prop(scan.result, "sessionId") = Word("s2")
  /\ Prop(scan.result, "gitBranch") = Undefined
  /\ Prop(scan.result, "firstTimestamp") = Word("t2")
  /\ Prop(scan.result, "lastTimestamp") = Word("t1")

\* C22: a query on a transcript that cannot be opened returns an empty
\* result (null, the empty sequence or the empty object) and raises no
\* exception to the handler that called it.
C22_UnreadableGivesEmpty ==
  (scan.state # "idle" /\ scan.failed /\ scan.consumed = 0) =>
    /\ scan.state = "returned"
    /\ scan.result \in {Null, Arr(<<>>), Obj(NoFields)}

\* The caching calls that found an entry of their path at an age of the TTL
\* or more, and have returned.
ExpiredAccesses ==
  {j \in Returned :
     /\ calls[j].useCache
     /\ calls[j].seen # 0
     /\ calls[j].at - calls[calls[j].seen].doneAt >= CACHE_TTL}

\* C23 as stated: an entry older than the TTL is never returned, and the
\* next caching access to its path evicts it from the map.
C23_EvictedOnAccess ==
  /\ \A j \in DOMAIN calls :
       calls[j].hit => calls[j].at - calls[calls[j].seen].doneAt <= CACHE_TTL
  /\ \A j \in ExpiredAccesses :
       StoredBy(calls[j].path) # calls[j].seen

\* C23, amended: an entry is returned only at an age below the TTL; a
\* caching access that finds it older re-reads the file and, when that read
\* succeeds, replaces the entry with the new result (a failed re-read leaves
\* the old entry in the map, where it is never returned); a sweep leaves no
\* entry older than the TTL in the map.
C23_ExpiredEntry ==
  /\ [](/\ \A j \in DOMAIN calls :
             calls[j].hit =>
               calls[j].at - calls[calls[j].seen].doneAt < CACHE_TTL
        /\ \A j \in ExpiredAccesses :
             /\ ~calls[j].hit
             /\ calls[j].reads = 1
             /\ ~calls[j].failed => StoredBy(calls[j].path) # calls[j].seen)
  /\ [][sweepAt' # sweepAt =>
          \A p \in DOMAIN transcriptCache' :
            now' - transcriptCache'[p].timestamp <= CACHE_TTL]_allVars

\* A caching call found the entry of its path expired, read the file again
\* and stored the new result in its place.
C23_Witness ==
  \E j \in ExpiredAccesses :
    /\ ~calls[j].failed
    /\ StoredBy(calls[j].path) = j
    /\ transcriptCache[calls[j].path].timestamp = calls[j].doneAt

\* The age of the entry of path p.
Age(p) == now - transcriptCache[p].timestamp

\* The paths of the caching reads completed in the last two TTL intervals.
RecentPaths ==
  {calls[i].path : i \in {j \in Returned :
                            /\ calls[j].useCache
                            /\ calls[j].doneAt >= now - 2 * CACHE_TTL}}

\* C24: the sweep runs every TTL interval; it removes every entry older than
\* the TTL and leaves every younger entry unchanged; so no entry stays
\* longer than two TTL intervals after it was stored, and the map holds at
\* most as many entries as distinct paths were queried in the last two TTL
\* intervals.
C24_SweepBoundsCache ==
  /\ [](/\ now <= sweepAt /\ sweepAt <= now + CACHE_TTL
        /\ \A p \in DOMAIN transcriptCache : Age(p) <= 2 * CACHE_TTL
        /\ DOMAIN transcriptCache \subseteq RecentPaths
        /\ Cardinality(DOMAIN transcriptCache) <= Cardinality(RecentPaths))
  /\ [][sweepAt' # sweepAt =>
          /\ sweepAt' = sweepAt + CACHE_TTL
          /\ DOMAIN transcriptCache' \subseteq DOMAIN transcriptCache
          /\ \A p \in DOMAIN transcriptCache :
               /\ Age(p) > CACHE_TTL => p \notin DOMAIN transcriptCache'
               /\ Age(p) < CACHE_TTL =>
                    /\ p \in DOMAIN transcriptCache'
                    /\ transcriptCache'[p] = transcriptCache[p]]_allVars

\* A sweep is due and will remove an entry that has reached the age of two
\* TTL intervals while the younger entry of the other path stays.
C24_Witness ==
  /\ now = sweepAt
  /\ \E p, q \in DOMAIN transcriptCache :
       Age(p) = 2 * CACHE_TTL /\ Age(q) < CACHE_TTL

----------------------------------------------------------------------------
\* The session log: saveSessionData called by the handlers of hook processes
\* that share the session files

\* Largest number of hook processes that call saveSessionData.
MaxSavers == 3

SessionFrame ==
  /\ UNCHANGED vars
  /\ UNCHANGED storeVars

\* The savers that have returned.
Saved == {p \in DOMAIN savers : savers[p].state = "done"}

\* The handler of a new hook process calls saveSessionData with a payload
\* of session s: mkdir, then the read of the file is under way.  prior
\* records the savers that had returned by then.
SaveSessionDataCall(s) ==
  /\ Len(savers) < MaxSavers
  /\ savers' = Append(savers, [session_id |-> s, state |-> "reading",
                               sessionData |-> <<>>, prior |-> Saved])
  /\ UNCHANGED sessionFiles
  /\ SessionFrame

\* sessionData after the read and the push: the parsed array, or the empty
\* one when the file does not exist or does not parse, with the record of
\* this call appended.
Pushed(existing, p) ==
  Append(IF existing.exists /\ SessionParse(existing.text).ok
         THEN SessionParse(existing.text).value
         ELSE <<>>,
         SessionRecord(p))

\* readFile completes (or fails), the record is pushed and writeFile is
\* called.
ReadSessionFile(p) ==
  /\ savers[p].state = "reading"
  /\ savers' = [savers EXCEPT
       ![p].state = "writing",
       ![p].sessionData = Pushed(sessionFiles[savers[p].session_id], p)]
  /\ UNCHANGED sessionFiles
  /\ SessionFrame

\* writeFile opens the file with flag 'w': it is created or truncated.
OpenSessionFile(p) ==
  /\ savers[p].state = "writing"
  /\ sessionFiles' = [sessionFiles EXCEPT
       ![savers[p].session_id] = [exists |-> TRUE, text |-> <<>>]]
  /\ savers' = [savers EXCEPT ![p].state = "opened"]
  /\ SessionFrame

\* The text a write of new at position 0 leaves in a file that holds old.
Overwrite(old, new) ==
  IF Len(new) >= Len(old) THEN new
  ELSE new \o SubSeq(old, Len(new) + 1, Len(old))

\* writeFile writes the text from the start of the file and returns.
WriteSessionFile(p) ==
  /\ savers[p].state = "opened"
  /\ sessionFiles' = [sessionFiles EXCEPT
       ![savers[p].session_id].text =
          Overwrite(@, SessionStringify(savers[p].sessionData))]
  /\ savers' = [savers EXCEPT ![p].state = "done"]
  /\ SessionFrame

SessionInit ==
  /\ HandlerProcess
  /\ StoreLoaded
  /\ NoSession
  /\ files = [p \in Paths |-> <<>>]

SessionNext ==
  \/ \E s \in Sessions : SaveSessionDataCall(s)
  \/ \E p \in DOMAIN savers : ReadSessionFile(p)
  \/ \E p \in DOMAIN savers : OpenSessionFile(p)
  \/ \E p \in DOMAIN savers : WriteSessionFile(p)

\* Hook processes, one per event, whose handlers call saveSessionData.
SessionSpec == SessionInit /\ [][SessionNext]_allVars

\* The savers of session s.
SaversOf(s) == {p \in DOMAIN savers : savers[p].session_id = s}

\* C27: each saveSessionData call appends one record to the file of its
\* session and keeps the earlier ones: once k calls for a session have
\* returned, whether the processes ran one after another or overlapped, the
\* file holds k records.
C27_EveryCallAddsOneRecord ==
  \A s \in Sessions :
    (SaversOf(s) # {} /\ SaversOf(s) \subseteq Saved) =>
      /\ sessionFiles[s].exists
      /\ SessionParse(sessionFiles[s].text).ok
      /\ Len(SessionParse(sessionFiles[s].text).value)
           = Cardinality(SaversOf(s))
      /\ \A p \in SaversOf(s) :
           \E i \in DOMAIN SessionParse(sessionFiles[s].text).value :
             SessionParse(sessionFiles[s].text).value[i] = SessionRecord(p)

----------------------------------------------------------------------------
\* The original transcript functions, which the streaming ones replaced

\* item.type === 'text' && item.content
OriginalIsTextItem(item) ==
  Prop(item, "type") = Word("text") /\ Truthy(Prop(item, "content"))

\* item.type === 'tool_use', then toolUse.name && toolUse.input
OriginalIsToolUse(item) ==
  /\ Prop(item, "type") = Word("tool_use")
  /\ Truthy(Prop(item, "name"))
  /\ Truthy(Prop(item, "input"))

\* The original getAllMessages on the lines it reads before the end of the
\* file or a stream error: every non-blank line JSON.parse accepts.
RECURSIVE OriginalGetAllMessages(_)
OriginalGetAllMessages(lines) ==
  IF lines = <<>> THEN <<>>
  ELSE (IF Trim(Head(lines)) # <<>> /\ JSONParseLine(Head(lines)).ok
        THEN <<JSONParseLine(Head(lines)).value>>
        ELSE <<>>) \o OriginalGetAllMessages(Tail(lines))

\* The body of the loop of the original getInitialMessage.
OriginalInitialText(message) ==
  IF Prop(message, "type") = Word("summary") THEN NotFound
  ELSE IF /\ Prop(message, "type") = Word("user")
          /\ Prop(Prop(message, "message"), "role") = Word("user")
  THEN LET content == Prop(Prop(message, "message"), "content")
       IN IF content.type = "string"
          THEN [found |-> TRUE, value |-> content]
          ELSE IF content.type = "array"
          THEN LET textContent ==
                     Join(Texts(SelectSeq(content.items, OriginalIsTextItem),
                                "content"), <<NL>>)
               IN IF Truthy(Str(textContent))
                  THEN [found |-> TRUE, value |-> Str(textContent)]
                  ELSE NotFound
          ELSE NotFound
  ELSE NotFound

\* The original getInitialMessage: null at the end of the lines, and in its
\* catch when the stream fails there.
RECURSIVE OriginalGetInitialMessage(_)
OriginalGetInitialMessage(lines) ==
  IF lines = <<>> THEN Null
  ELSE IF /\ Trim(Head(lines)) # <<>>
          /\ JSONParseLine(Head(lines)).ok
          /\ OriginalInitialText(JSONParseLine(Head(lines)).value).found
  THEN OriginalInitialText(JSONParseLine(Head(lines)).value).value
  ELSE OriginalGetInitialMessage(Tail(lines))

\* The body of the loop of the original getConversationHistory.
OriginalConversationEntry(message) ==
  IF Prop(message, "type") = Word("summary") THEN <<>>
  ELSE IF /\ Prop(message, "type") = Word("user")
          /\ Prop(Prop(message, "message"), "role") = Word("user")
  THEN LET c == Prop(Prop(message, "message"), "content")
           content ==
             IF c.type = "string" THEN c.text
             ELSE IF c.type = "array"
             THEN Join(Texts(SelectSeq(c.items, OriginalIsTextItem),
                             "content"), <<NL>>)
             ELSE <<>>
       IN IF Truthy(Str(content))
          THEN <<[role |-> "user", content |-> Str(content)]>>
          ELSE <<>>
  ELSE IF Prop(message, "type") = Word("assistant")
  THEN LET textContent ==
             Join(Texts(SelectSeq(Prop(Prop(message, "message"),
                                       "content").items, IsTextBlock),
                        "text"), <<>>)
       IN IF Truthy(Str(textContent))
          THEN <<[role |-> "assistant", content |-> Str(textContent)]>>
          ELSE <<>>
  ELSE <<>>

\* The body of the loop of the original getToolUsage.
OriginalToolUses(message) ==
  IF Prop(message, "type") = Word("assistant")
  THEN LET toolUses ==
             SelectSeq(Prop(Prop(message, "message"), "content").items,
                       OriginalIsToolUse)
       IN [i \in DOMAIN toolUses |->
             [tool |-> Prop(toolUses[i], "name"),
              input |-> Prop(toolUses[i], "input"),
              timestamp |-> Prop(message, "timestamp")]]
  ELSE <<>>

\* The original getConversationHistory: a loop over the messages the
\* original getAllMessages returns.
RECURSIVE OriginalConversation(_)
OriginalConversation(messages) ==
  IF messages = <<>> THEN <<>>
  ELSE OriginalConversationEntry(Head(messages))
         \o OriginalConversation(Tail(messages))

OriginalGetConversationHistory(lines) ==
  OriginalConversation(OriginalGetAllMessages(lines))

\* The original getToolUsage, likewise.
RECURSIVE OriginalToolUsage(_)
OriginalToolUsage(messages) ==
  IF messages = <<>> THEN <<>>
  ELSE OriginalToolUses(Head(messages)) \o OriginalToolUsage(Tail(messages))

OriginalGetToolUsage(lines) ==
  OriginalToolUsage(OriginalGetAllMessages(lines))

\* What the original function of the name op returns for the lines.
OriginalResult(op, lines) ==
  IF op = "getInitialMessage" THEN OriginalGetInitialMessage(lines)
  ELSE IF op = "getAllMessages" THEN Arr(OriginalGetAllMessages(lines))
  ELSE IF op = "getConversationHistory"
  THEN Arr(OriginalGetConversationHistory(lines))
  ELSE Arr(OriginalGetToolUsage(lines))

\* The functions that have an original of the same name.
Replaced ==
  {"getInitialMessage", "getAllMessages", "getConversationHistory",
   "getToolUsage"}

\* The lines the stream of the scan delivered: all of them, or those before
\* the stream raised its error.
Delivered ==
  IF scan.failed THEN SubSeq(files[scan.path], 1, scan.consumed)
  ELSE files[scan.path]

\* C26: on every transcript, an unreadable one included, the optimized
\* getInitialMessage, getAllMessages (first call), getConversationHistory
\* and getToolUsage return what the original functions of the same names
\* return.
C26_BackwardsCompatible ==
  (scan.state \in {"returned", "rejected"} /\ scan.op \in Replaced) =>
    /\ scan.state = "returned"
    /\ scan.result = OriginalResult(scan.op, Delivered)

----------------------------------------------------------------------------
\* The generated index.ts: the template's preToolUse handler under the runner

\* Variant: only rm -rf / is looked for.
IsDangerous_RootOnly(command) == Includes(command, <<RmRf, "/">>)

\* command.includes('rm -rf /') || command.includes('rm -rf ~')
IsDangerous(command) ==
  Includes(command, <<RmRf, "/">>) \/ Includes(command, <<RmRf, "~">>)

\* payload.tool_name === name && payload.tool_input
IsToolCall(payload, name) ==
  /\ "tool_name" \in DOMAIN payload
  /\ payload["tool_name"] = name
  /\ "tool_input" \in DOMAIN payload

\* The template's preToolUse after its saveSessionData: what it logs to
\* stdout and stderr, and the response it resolves with.
PreToolUse(payload) ==
  LET editing ==
        IF IsToolCall(payload, "Edit")
        THEN <<<<"Claude is editing: ", "undefined">>>>
        ELSE <<>>
      tracked ==
        /\ IsToolCall(payload, "Bash")
        /\ "command" \in DOMAIN payload["tool_input"]
      command == payload["tool_input"]["command"]
  IN IF tracked /\ IsDangerous(command)
     THEN [stdout |-> <<<<"Running command: ">> \o command>>,
           stderr |-> <<"Dangerous command detected! Blocking execution.">>,
           result |-> Obj([decision |-> "block", reason |-> Reason(command)])]
     ELSE [stdout |-> editing \o
                      (IF tracked THEN <<<<"Running command: ">> \o command>>
                       ELSE <<>>),
           stderr |-> <<>>,
           result |-> Obj(NoFields)]

\* The payloads Claude Code writes to stdin, each in one piece: a session
\* id, then a tool name and a tool input or neither.
TemplateTexts ==
  {<<"{", sid, "}">> : sid \in {"sid1", "sid2"}}
    \cup {<<"{", sid, n, i, "}">> :
            sid \in {"sid1", "sid2"}, n \in {"nB", "nE"},
            i \in {"i0", "c1", "c2", "c3", "c4", "c5", "c6"}}

\* The handler, called by the runner, calls saveSessionData and awaits it.
PreToolUseSaves(i) ==
  /\ invocations[i].state = "awaiting"
  /\ invocations[i].handler = "preToolUse"
  /\ savers = <<>>
  /\ SaveSessionDataCall(invocations[i].payload["session_id"])

\* saveSessionData has returned: the handler logs and resolves, and
\* handleHookPayload prints the response.
PreToolUseReturns(i) ==
  /\ Running
  /\ invocations[i].state = "awaiting"
  /\ invocations[i].handler = "preToolUse"
  /\ savers # <<>>
  /\ savers[1].state = "done"
  /\ LET out == PreToolUse(invocations[i].payload)
     IN /\ stdout' = Append(stdout \o out.stdout, ResponseLine(out.result))
        /\ stderr' = stderr \o out.stderr
        /\ invocations' = [invocations EXCEPT
             ![i].state = "done",
             ![i].result = out.result,
             ![i].line = Len(stdout) + Len(out.stdout) + 1]
        /\ exit' = ExitAfterResponse(invocations[i].payload["hook_type"],
                                     exit)
  /\ UNCHANGED <<hook_type, handlers, buffer, ended, input>>
  /\ UNCHANGED storeVars
  /\ UNCHANGED sessionVars

\* bun .claude/hooks/index.ts PreToolUse
TemplateInit ==
  /\ Init
  /\ hook_type = "PreToolUse"
  /\ handlers = {"preToolUse", "postToolUse", "notification", "stop",
                 "subagentStop", "userPromptSubmit", "preCompact"}
  /\ StoreLoaded
  /\ NoSession
  /\ files = [p \in Paths |-> <<>>]

TemplateNext ==
  \/ \E text \in TemplateTexts : input = <<>> /\ Data(text)
  \/ End
  \/ \E i \in DOMAIN invocations : PreToolUseSaves(i)
  \/ \E p \in DOMAIN savers : ReadSessionFile(p)
  \/ \E p \in DOMAIN savers : OpenSessionFile(p)
  \/ \E p \in DOMAIN savers : WriteSessionFile(p)
  \/ \E i \in DOMAIN invocations : PreToolUseReturns(i)

\* One PreToolUse hook process of the generated setup.
TemplateSpec == TemplateInit /\ [][TemplateNext]_allVars

\* The command of a payload contains rm -rf / or rm -rf ~.
BlockedCommand(payload) ==
  /\ "tool_name" \in DOMAIN payload
  /\ payload["tool_name"] = "Bash"
  /\ "tool_input" \in DOMAIN payload
  /\ "command" \in DOMAIN payload["tool_input"]
  /\ LET command == payload["tool_input"]["command"]
     IN \E k \in 1..(Len(command) - 1) :
          command[k] = "rm -rf " /\ command[k + 1] \in {"/", "~"}

----------------------------------------------------------------------------
\* Properties of the runner's buffer and of tagging

\* The tokens the step delivers on stdin.
Arrived == SubSeq(input', Len(input) + 1, Len(input'))

\* C29: the buffer is the concatenation, in arrival order, of the chunks
\* received since the last successful parse (or since the start): it starts
\* empty, every chunk is appended to it, a failed parse keeps the appended
\* text and triggers neither dispatch nor output, a successful parse resets
\* it to empty and dispatches the parsed value, and nothing else changes it.
C29_BufferIsPendingInput ==
  /\ [](/\ \E k \in 0..Len(input) : buffer = SubSeq(input, k + 1, Len(input))
        /\ ~JSONParse(buffer).ok
        /\ invocations = <<>> => buffer = input)
  /\ [][IF input' # input
        THEN IF JSONParse(buffer \o Arrived).ok
             THEN /\ buffer' = <<>>
                  /\ Len(invocations') = Len(invocations) + 1
                  /\ invocations'[Len(invocations')].inputData =
                       JSONParse(buffer \o Arrived).value
             ELSE /\ buffer' = buffer \o Arrived
                  /\ UNCHANGED <<invocations, stdout, stderr, exit>>
        ELSE buffer' = buffer]_allVars

\* A value was parsed from two chunks and dispatched, and a later chunk that
\* does not parse is all the buffer holds.
C29_Witness ==
  /\ Len(invocations) = 1
  /\ invocations[1].buffered > 0
  /\ buffer # <<>>
  /\ Len(buffer) < Len(input)

\* C30: the payload a handler is given has every field of the parsed JSON
\* with its value, hook_event_name included whatever category it names, and
\* a hook_type equal to the category argument, whatever hook_type the input
\* carried.
C30_TaggingKeepsFields ==
  \A i \in DOMAIN invocations :
    LET parsed == invocations[i].inputData.fields
        payload == invocations[i].payload
    IN /\ DOMAIN payload = DOMAIN parsed \cup {"hook_type"}
       /\ \A k \in DOMAIN parsed \ {"hook_type"} : payload[k] = parsed[k]
       /\ payload["hook_type"] = hook_type

\* A PostToolUse process whose input names the event Stop and carries the
\* hook_type PreToolUse calls its postToolUse handler with both the event
\* name and its own tag.
C30_Witness ==
  /\ hook_type = "PostToolUse"
  /\ Len(invocations) = 1
  /\ invocations[1].handler = "postToolUse"
  /\ invocations[1].inputData.fields =
       [hook_event_name |-> "Stop", hook_type |-> "PreToolUse"]
  /\ invocations[1].payload =
       [hook_event_name |-> "Stop", hook_type |-> "PostToolUse"]

----------------------------------------------------------------------------
\* Properties of the cache under overlapping calls, failures and clears

\* Call i completes its scan successfully in this step.
Completes(i) ==
  /\ calls[i].state = "reading"
  /\ calls'[i].state = "returned"
  /\ ~calls'[i].failed

\* C31: a getAllMessages(path, true) that finds no fresh entry scans the file
\* once and, when the scan succeeds, sets the entry of path to the returned
\* sequence with the time of completion as its timestamp, whatever entry
\* the path had before; the entries of the other paths stay as they are.
C31_MissStoresResult ==
  /\ [](\A i \in DOMAIN calls :
          calls[i].useCache /\ ~calls[i].hit => calls[i].reads = 1)
  /\ [][\A i \in DOMAIN calls :
          Completes(i) /\ calls[i].useCache =>
            LET path == calls[i].path
            IN /\ calls'[i].result = ReadTranscriptLines(files[path])
               /\ DOMAIN transcriptCache' = DOMAIN transcriptCache \cup {path}
               /\ transcriptCache'[path].data = calls'[i].result
               /\ transcriptCache'[path].timestamp = now
               /\ calls'[i].doneAt = now
               /\ \A q \in DOMAIN transcriptCache \ {path} :
                    transcriptCache'[q] = transcriptCache[q]]_allVars

\* The entry of a path was stored by a caching read that completed after
\* another caching read of the same path had stored its own, while the
\* other path has an entry too.
C31_Witness ==
  \E i, j \in Returned :
    /\ i # j
    /\ calls[i].path = calls[j].path
    /\ calls[i].useCache /\ ~calls[i].hit /\ ~calls[i].failed
    /\ calls[j].useCache /\ ~calls[j].hit /\ ~calls[j].failed
    /\ StoredBy(calls[i].path) = i
    /\ Cardinality(DOMAIN transcriptCache) = 2

\* The messages of the lines the query in progress has taken so far.
ReadSoFar == ReadTranscriptLines(SubSeq(files[scan.path], 1, scan.consumed))

\* C32: while getLastNMessages(path, n) runs, after each line the window holds
\* the last min(n, j) of the j messages read so far, so never more than n;
\* within a turn, between push and shift, it holds at most n + 1.
C32_WindowBounded ==
  /\ [](scan.state # "idle" /\ scan.op = "getLastNMessages" /\ ~scan.failed =>
          /\ Len(scan.messages) <= scan.n
          /\ scan.messages = LastOf(ReadSoFar, Min(scan.n, Len(ReadSoFar))))
  /\ [][Scanning("getLastNMessages") /\ scan'.consumed = scan.consumed + 1
          /\ Truthy(NextMessage) =>
          /\ Len(Append(scan.messages, NextMessage)) <= scan.n + 1
          /\ scan'.messages \in
               {Append(scan.messages, NextMessage),
                Tail(Append(scan.messages, NextMessage))}]_allVars

\* Three messages were read with a window of two, which holds the last two.
C32_Witness ==
  /\ Scanning("getLastNMessages")
  /\ scan.n = 2
  /\ Len(ReadSoFar) = 3
  /\ scan.messages = SubSeq(ReadSoFar, 2, 3)
  /\ scan.messages[1] # scan.messages[2]

\* A call is made in this step, with useCache = FALSE.
BypassCalled ==
  /\ Len(calls') = Len(calls) + 1
  /\ ~calls'[Len(calls')].useCache

\* C33: getAllMessages(path, false) reads the file whatever the map holds
\* for the path, and neither the call nor its completion, successful or
\* failed, adds, replaces or removes an entry of the map.
C33_BypassBothWays ==
  /\ [](\A j \in DOMAIN calls :
          ~calls[j].useCache =>
            /\ ~calls[j].hit
            /\ calls[j].reads = 1)
  /\ [][/\ BypassCalled => transcriptCache' = transcriptCache
        /\ \A i \in DOMAIN calls :
             /\ calls[i].state = "reading" /\ calls'[i].state = "returned"
             /\ ~calls[i].useCache
             => /\ transcriptCache' = transcriptCache
                /\ ~calls'[i].failed =>
                     calls'[i].result =
                       ReadTranscriptLines(files[calls[i].path])]_allVars

\* A call with useCache = FALSE was made while the entry of its path was
\* fresh; it read the file, which had grown since, and the entry is still
\* the one it found.
C33_Witness ==
  \E j \in Returned :
    /\ ~calls[j].useCache /\ ~calls[j].failed
    /\ calls[j].seen # 0
    /\ calls[j].at - calls[calls[j].seen].doneAt < CACHE_TTL
    /\ calls[j].reads = 1
    /\ StoredBy(calls[j].path) = calls[j].seen
    /\ calls[j].result # transcriptCache[calls[j].path].data

\* v carries the tag of one of the three shapes of TranscriptMessage.
IsTranscriptMessage(v) ==
  /\ v.type = "object"
  /\ Prop(v, "type") \in {Word("summary"), Word("user"), Word("assistant")}

\* C34: every value readTranscriptLines hands to a query is a Summary, a
\* UserMessage or an AssistantMessage, and so is every element of the
\* sequence getAllMessages returns; a line that is valid JSON but none of
\* these is dropped.
C34_OnlyTranscriptMessages ==
  /\ scan.state # "idle" =>
       \A k \in DOMAIN ReadSoFar : IsTranscriptMessage(ReadSoFar[k])
  /\ Finished("getAllMessages") =>
       \A k \in DOMAIN scan.result.items :
         IsTranscriptMessage(scan.result.items[k])

\* The scan of call i fails in this step.
Fails(i) ==
  /\ calls[i].state = "reading"
  /\ calls'[i].state = "returned"
  /\ calls'[i].failed

\* C35: a getAllMessages(path, true) whose scan fails changes nothing in the
\* cache, neither when it is called nor when it fails: no entry was ever
\* stored by a failed call, and no call is served the result of one.
C35_FailedReadNotCached ==
  /\ [](/\ \A p \in DOMAIN transcriptCache :
             ~calls[transcriptCache[p].by].failed
        /\ \A j \in DOMAIN calls :
             calls[j].hit =>
               /\ ~calls[calls[j].seen].failed
               /\ calls[j].result = calls[calls[j].seen].result)
  /\ [][/\ \A i \in DOMAIN calls :
             Fails(i) /\ calls[i].useCache =>
               transcriptCache' = transcriptCache
        /\ Len(calls') > Len(calls) => transcriptCache' = transcriptCache]_allVars

\* The scan of a caching call failed before the line of the file was read;
\* a caching call for the same path made less than the TTL later found no
\* entry and read the file.
C35_Witness ==
  \E j \in DOMAIN calls : \E i \in calls[j].prior :
    /\ calls[i].path = calls[j].path
    /\ calls[i].useCache /\ calls[i].failed
    /\ calls[i].result # ReadTranscriptLines(files[calls[i].path])
    /\ calls[j].useCache
    /\ calls[j].at - calls[i].doneAt < CACHE_TTL
    /\ calls[j].seen = 0
    /\ ~calls[j].hit /\ calls[j].reads = 1

\* Caching calls i and j of one path overlap: j was made while i was reading.
Overlap(i, j) ==
  /\ i < j
  /\ i \notin calls[j].prior
  /\ calls[i].path = calls[j].path
  /\ calls[i].useCache /\ calls[j].useCache
  /\ ~calls[i].hit /\ ~calls[j].hit

\* C36: two getAllMessages(path, true) calls that overlap on a path without
\* a fresh entry each scan the file themselves, and each one that succeeds
\* stores its own result when it completes, over whatever entry the other
\* has stored: the entry left is that of the call that finished last.
C36_NotCoalesced ==
  /\ [](\A i, j \in DOMAIN calls :
          Overlap(i, j) => calls[i].reads = 1 /\ calls[j].reads = 1)
  /\ [][\A i, j \in DOMAIN calls :
          (Overlap(i, j) \/ Overlap(j, i)) /\ Completes(i) =>
            /\ (StoredBy(calls[i].path))' = i
            /\ transcriptCache'[calls[i].path].data = calls'[i].result
            /\ transcriptCache'[calls[i].path].data =
                 ReadTranscriptLines(files[calls[i].path])]_allVars

\* Of two overlapping calls the one made first finished last, after the file
\* had grown: both scanned, both stored, and the entry is that of the first.
C36_Witness ==
  \E i, j \in Returned :
    /\ Overlap(i, j)
    /\ ~calls[i].failed /\ ~calls[j].failed
    /\ calls[i].result # calls[j].result
    /\ StoredBy(calls[i].path) = i
    /\ transcriptCache[calls[i].path].data = calls[i].result

\* C37: once clearTranscriptCache has removed a path, the map never holds an
\* entry of that path stored by a call whose scan was in flight at the
\* clear.
C37_ClearIsFinal ==
  \A p \in DOMAIN transcriptCache : ~calls[transcriptCache[p].by].cleared

\* C38: the stream a query opened is open exactly while the query is
\* scanning; once the query has completed, because the file was exhausted,
\* because it stopped early (getInitialMessage at its match, searchMessages
\* at its limit) or because an error was raised, the line reader is closed
\* and the stream destroyed.
C38_StreamsClosed ==
  scan.state # "idle" =>
    /\ scan.state \in {"scanning", "returned", "rejected"}
    /\ scan.open <=> scan.state = "scanning"

\* searchMessages stopped at its limit with lines of the file unread, and
\* the stream is closed.
C38_Witness ==
  /\ Finished("searchMessages")
  /\ scan.limit = <<1>>
  /\ Len(scan.messages) = 1
  /\ scan.consumed < Len(files[scan.path])
  /\ ~scan.open

----------------------------------------------------------------------------
\* Properties of trailing whitespace on stdin and of the two expiry tests

\* C39: a chunk of whitespace only that arrives when a value was dispatched
\* and nothing but whitespace is pending starts no invocation and writes
\* nothing, the buffer staying whitespace; and when stdin ends on such a
\* buffer no diagnostic is written.
C39_TrailingWhitespace ==
  /\ [][/\ ( /\ invocations # <<>>
             /\ Trim(buffer) = <<>>
             /\ input' # input
             /\ Trim(Arrived) = <<>> )
           => /\ UNCHANGED <<invocations, stdout, stderr, exit>>
              /\ buffer' = buffer \o Arrived
        /\ ( /\ ~ended /\ ended'
             /\ Trim(buffer) = <<>> )
           => stderr' = stderr]_allVars
  /\ [](ended /\ Trim(buffer) = <<>> =>
          \A k \in DOMAIN stderr : stderr[k] # IncompleteLog)

\* The value was parsed and answered, a whitespace chunk arrived after it
\* and stdin ended: one invocation, one line on stdout, nothing on stderr.
C39_Witness ==
  /\ ended
  /\ Len(invocations) = 1
  /\ input = <<"{", "}", WS>>
  /\ buffer = <<WS>>
  /\ Len(stdout) = 1
  /\ stderr = <<>>

\* The age at which caching call j found the entry of its path.
AgeSeen(j) == calls[j].at - calls[calls[j].seen].doneAt

\* C40: the TTL is 300000 ms; a caching call that finds an entry younger
\* than the TTL is served it, one that finds it at the TTL exactly or older
\* reads the file; a sweep keeps, unchanged, every entry whose age is the TTL
\* or less and removes every older one.  The two tests differ at the age of
\* exactly the TTL only.
C40_ExpiryTestsAgree ==
  /\ [](/\ CACHE_TTL = 300000
        /\ \A j \in DOMAIN calls :
             calls[j].useCache /\ calls[j].seen # 0 =>
               /\ AgeSeen(j) < CACHE_TTL => calls[j].hit /\ calls[j].reads = 0
               /\ AgeSeen(j) >= CACHE_TTL =>
                    ~calls[j].hit /\ calls[j].reads = 1
        /\ \A p \in DOMAIN transcriptCache :
             /\ Fresh(transcriptCache[p], now) => ~Stale(transcriptCache[p], now)
             /\ ~Fresh(transcriptCache[p], now) /\ ~Stale(transcriptCache[p], now)
                  <=> Age(p) = CACHE_TTL)
  /\ [][sweepAt' # sweepAt =>
          \A p \in DOMAIN transcriptCache :
            /\ Age(p) <= CACHE_TTL =>
                 /\ p \in DOMAIN transcriptCache'
                 /\ transcriptCache'[p] = transcriptCache[p]
            /\ Age(p) > CACHE_TTL => p \notin DOMAIN transcriptCache']_allVars

\* A sweep has run and kept an entry whose age is exactly the TTL, and a
\* caching call that found the entry at that age is reading the file.
C40_Witness ==
  /\ sweepAt > CACHE_TTL
  /\ \E j \in DOMAIN calls :
       /\ calls[j].useCache
       /\ calls[j].seen # 0
       /\ AgeSeen(j) = CACHE_TTL
       /\ ~calls[j].hit /\ calls[j].reads = 1
       /\ StoredBy(calls[j].path) = calls[j].seen
       /\ Age(calls[j].path) = CACHE_TTL

====
